---------------------------- MODULE Spec2Model ----------------------------
(***************************************************************************)
(* Model of swmm-utils' binary results decoder (SwmmOutputDecoder) and of   *)
(* the read-only facade over its result (SwmmOutput).                      *)
(*                                                                         *)
(* A file is a sequence of bytes.  The decoder's cursor `pos` is a byte     *)
(* offset counted from 0.  Every primitive read is modelled on the bytes:   *)
(* little-endian two's complement for int32, the IEEE-754 single fields     *)
(* for float32, UTF-8 with replacement for labels.                          *)
(***************************************************************************)
EXTENDS Integers, Sequences, FiniteSets, TLC

VARIABLES
    file,          \* the bytes of the file decode_file opens
    pc,            \* position of the decode in decode_file
    pos,           \* cursor of the open handle (byte offset from 0)
    open_handles,  \* number of handles decode_file holds open
    exc,           \* the exception decode_file raised, "none" otherwise
    log,           \* the seeks and reads issued so far, in order
    header,        \* dict built by _parse_header
    labels,        \* kind -> list of decoded labels
    pollutant_units,
    properties,    \* kind -> (label -> (property name -> value))
    variables,
    start_date,
    report_interval_seconds,
    footer,        \* the six footer integers
    n_periods,
    time_index,
    ret,           \* result of the last facade call
    _data,         \* SwmmInput._data: section name -> value
    heap,          \* the lists and dicts values refer to, by identity
    model_dict,    \* the dictionary the caller got from to_dict()
    inp_pc,        \* "idle", "new", "ready" or "raised" (SwmmInput.__init__)
    inp_exc,       \* the exception SwmmInput.__init__ raised, "none" otherwise
    opens,         \* the paths the input decoders tried to open
    calls          \* number of calls made on the SwmmInput

inp_vars == <<_data, heap, model_dict, inp_pc, inp_exc, opens, calls>>

vars == <<file, pc, pos, open_handles, exc, log, header, labels,
          pollutant_units, properties, variables, start_date,
          report_interval_seconds, footer, n_periods, time_index, ret, inp_vars>>

-----------------------------------------------------------------------------
(* Bounds of the explored inputs.                                          *)

MaxObjects == 2     \* objects per kind in the generated files
MaxPeriods == 3     \* largest period count in the generated footers
MaxPad == 2         \* int32 words of per-step result data before the footer
MaxLoop == 20       \* most iterations of one loop of the decoder that are followed

-----------------------------------------------------------------------------
(* Class constants of SwmmOutputDecoder.                                   *)

MAGIC_NUMBER == 516114522
RECORD_SIZE == 4
FLOW_UNITS == <<"CFS", "GPM", "MGD", "CMS", "LPS", "MLD">>
CONCENTRATION_UNITS == <<"MG", "UG", "COUNTS">>
NODE_TYPES == <<"JUNCTION", "OUTFALL", "STORAGE", "DIVIDER">>
LINK_TYPES == <<"CONDUIT", "PUMP", "ORIFICE", "WEIR", "OUTLET">>
PROPERTY_LABELS == <<"type", "area", "invert", "max_depth", "offset", "length">>

Kinds == <<"subcatchment", "node", "link", "pollutant">>
ObjectKinds == <<"subcatchment", "node", "link">>

EmptyDict == [k \in {} |-> 0]

(* no SwmmInput is constructed *)
NoInput ==
    /\ _data = EmptyDict
    /\ heap = <<>>
    /\ model_dict = [made |-> FALSE]
    /\ inp_pc = "idle"
    /\ inp_exc = "none"
    /\ opens = <<>>
    /\ calls = 0

Min(a, b) == IF a < b THEN a ELSE b
Max(a, b) == IF a > b THEN a ELSE b

-----------------------------------------------------------------------------
(* Python list indexing: a[i] for -len <= i < len, IndexError otherwise.   *)
(* Lists are 1-based sequences here, so a[i] is s[i+1] and a[-1] is        *)
(* s[Len(s)].                                                              *)

IndexInRange(s, i) == -Len(s) <= i /\ i < Len(s)
ListIndex(s, i) == IF i >= 0 THEN s[i + 1] ELSE s[Len(s) + i + 1]

-----------------------------------------------------------------------------
(* struct.unpack("<i") and struct.unpack("<f") on four bytes.              *)

UnpackInt32(b) ==
    b[1] + 256 * b[2] + 65536 * b[3]
    + 16777216 * (IF b[4] >= 128 THEN b[4] - 256 ELSE b[4])

FloatVal(sign, exp, mant) ==
    [kind |-> "float", sign |-> sign, exp |-> exp, mant |-> mant]
StrVal(s) == [kind |-> "str", s |-> s]

UnpackFloat32(b) ==
    FloatVal(b[4] \div 128,
             (b[4] % 128) * 2 + b[3] \div 128,
             (b[3] % 128) * 65536 + b[2] * 256 + b[1])

FloatZero == FloatVal(0, 0, 0)

(* f.read(n): the next n bytes, fewer at end-of-file; the cursor advances  *)
(* by the number of bytes returned.                                        *)
Read(f, p, n) ==
    LET e == IF p >= Len(f) THEN p ELSE IF n >= Len(f) - p THEN Len(f) ELSE p + n
    IN  [data |-> SubSeq(f, p + 1, e), pos |-> e]

(* short data completed with zero bytes and unpacked *)
_read_int_padded(f, p) ==
    LET r == Read(f, p, 4)
    IN  [v |-> UnpackInt32(r.data \o [i \in 1 .. 4 - Len(r.data) |-> 0]), pos |-> r.pos]

_read_int(f, p) ==
    LET r == Read(f, p, 4)
    IN  [v |-> IF Len(r.data) < 4 THEN 0 ELSE UnpackInt32(r.data), pos |-> r.pos]

_read_float(f, p) ==
    LET r == Read(f, p, 4)
    IN  [v |-> IF Len(r.data) < 4 THEN FloatZero ELSE UnpackFloat32(r.data),
         pos |-> r.pos]

RECURSIVE _read_n_ints(_, _, _)
_read_n_ints(f, p, n) ==
    IF n <= 0 THEN [v |-> <<>>, pos |-> p]
    ELSE LET r == _read_int(f, p)
             rest == _read_n_ints(f, r.pos, n - 1)
         IN  [v |-> <<r.v>> \o rest.v, pos |-> rest.pos]


-----------------------------------------------------------------------------
(* bytes.decode("utf-8", errors="replace") followed by rstrip("\x00").      *)
(* A label is the sequence of its code points.  One- and two-byte forms     *)
(* are decoded; every byte that starts no valid form becomes U+FFFD.  The   *)
(* generated files hold no lead byte of a three- or four-byte form          *)
(* (0xE0..0xF4).                                                           *)

REPLACEMENT_CHAR == 65533

IsLead2(x) == x >= 194 /\ x <= 223
IsCont(x) == x >= 128 /\ x <= 191

Utf8Decode(b) ==
    LET second(i) == i > 1 /\ IsLead2(b[i - 1]) /\ IsCont(b[i])
        starts == SelectSeq([i \in 1 .. Len(b) |-> i], LAMBDA i : ~second(i))
        char(i) ==
            IF b[i] < 128 THEN b[i]
            ELSE IF IsLead2(b[i]) /\ i < Len(b) /\ IsCont(b[i + 1])
                 THEN (b[i] - 192) * 64 + (b[i + 1] - 128)
            ELSE REPLACEMENT_CHAR
    IN  [k \in 1 .. Len(starts) |-> char(starts[k])]

RStripNul(s) ==
    LET n == CHOOSE m \in 0 .. Len(s) :
                 /\ m = 0 \/ s[m] # 0
                 /\ \A j \in m + 1 .. Len(s) : s[j] = 0
    IN  SubSeq(s, 1, n)

(* the label kept as decoded, its trailing NULs included *)
ReadString_keep_nul(f, p) ==
    LET length == _read_int(f, p)
    IN  IF length.v > 0
        THEN LET r == Read(f, length.pos, length.v)
             IN  [v |-> Utf8Decode(r.data), pos |-> r.pos]
        ELSE [v |-> <<>>, pos |-> length.pos]

(* One iteration of the loop of _read_string_array: the length prefix,     *)
(* then the label bytes when the prefix is positive.                       *)
ReadString(f, p) ==
    LET length == _read_int(f, p)
    IN  IF length.v > 0
        THEN LET r == Read(f, length.pos, length.v)
             IN  [v |-> RStripNul(Utf8Decode(r.data)), pos |-> r.pos]
        ELSE [v |-> <<>>, pos |-> length.pos]

RECURSIVE _read_string_array(_, _, _)
_read_string_array(f, p, n_strings) ==
    IF n_strings <= 0 THEN [v |-> <<>>, pos |-> p]
    ELSE LET r == ReadString(f, p)
             rest == _read_string_array(f, r.pos, n_strings - 1)
         IN  [v |-> <<r.v>> \o rest.v, pos |-> rest.pos]

-----------------------------------------------------------------------------
(* datetime and timedelta of the standard library, as the decoder uses     *)
(* them: the constructor's range checks, proleptic Gregorian ordinals,     *)
(* timedelta normalised to (days, seconds), datetime + timedelta with its  *)
(* OverflowError outside years 1..9999.                                    *)

MINYEAR == 1
MAXYEAR == 9999
MAXORDINAL == 3652059
SECONDS_PER_DAY == 86400
MAX_DELTA_DAYS == 999999999

IsLeap(y) == y % 4 = 0 /\ (y % 100 # 0 \/ y % 400 = 0)
DaysInMonth(y, m) ==
    IF m = 2 THEN (IF IsLeap(y) THEN 29 ELSE 28)
    ELSE IF m \in {4, 6, 9, 11} THEN 30 ELSE 31
DAYS_BEFORE_MONTH == <<0, 31, 59, 90, 120, 151, 181, 212, 243, 273, 304, 334>>
DaysBeforeMonth(y, m) ==
    DAYS_BEFORE_MONTH[m] + (IF m > 2 /\ IsLeap(y) THEN 1 ELSE 0)
DaysBeforeYear(y) ==
    (y - 1) * 365 + (y - 1) \div 4 - (y - 1) \div 100 + (y - 1) \div 400
Ymd2Ord(y, m, d) == DaysBeforeYear(y) + DaysBeforeMonth(y, m) + d

Ord2Ymd(ordinal) ==
    LET n0 == ordinal - 1
        n400 == n0 \div 146097
        r400 == n0 % 146097
        n100 == r400 \div 36524
        r100 == r400 % 36524
        n4 == r100 \div 1461
        r4 == r100 % 1461
        n1 == r4 \div 365
        n == r4 % 365
        year == n400 * 400 + 1 + n100 * 100 + n4 * 4 + n1
        m0 == (n + 50) \div 32
        pre0 == DaysBeforeMonth(year, m0)
        month == IF pre0 > n THEN m0 - 1 ELSE m0
        preceding == DaysBeforeMonth(year, month)
    IN  IF n1 = 4 \/ n100 = 4
        THEN [year |-> year - 1, month |-> 12, day |-> 31]
        ELSE [year |-> year, month |-> month, day |-> n - preceding + 1]

DateTime(y, mo, d, h, mi, s) ==
    [year |-> y, month |-> mo, day |-> d, hour |-> h, minute |-> mi, second |-> s]

ValidDateTime(y, mo, d, h, mi) ==
    /\ MINYEAR <= y /\ y <= MAXYEAR
    /\ 1 <= mo /\ mo <= 12
    /\ 1 <= d /\ d <= DaysInMonth(y, mo)
    /\ 0 <= h /\ h <= 23
    /\ 0 <= mi /\ mi <= 59

FALLBACK_DATE == DateTime(2000, 1, 1, 0, 0, 0)

(* timedelta(seconds = s) *)
TimeDelta(s) == [days |-> s \div SECONDS_PER_DAY, seconds |-> s % SECONDS_PER_DAY]

(* timedelta * int; ok is FALSE where Python raises OverflowError *)
TimeDeltaMul(td, i) ==
    LET secs == td.seconds * i
        days == td.days * i + secs \div SECONDS_PER_DAY
    IN  [ok |-> -MAX_DELTA_DAYS <= days /\ days <= MAX_DELTA_DAYS,
         days |-> days, seconds |-> secs % SECONDS_PER_DAY]

(* datetime + timedelta; ok is FALSE where Python raises OverflowError *)
DateTimeAdd(dt, td) ==
    LET secs == dt.hour * 3600 + dt.minute * 60 + dt.second + td.seconds
        days == Ymd2Ord(dt.year, dt.month, dt.day) + td.days + secs \div SECONDS_PER_DAY
        rem == secs % SECONDS_PER_DAY
        ok == 0 < days /\ days <= MAXORDINAL
        ymd == IF ok THEN Ord2Ymd(days) ELSE [year |-> 0, month |-> 0, day |-> 0]
    IN  [ok |-> ok,
         v |-> DateTime(ymd.year, ymd.month, ymd.day,
                        rem \div 3600, (rem % 3600) \div 60, rem % 60)]

(* the five integers taken as they are, without the constructor's checks *)
_read_datetime_unchecked(f, p) ==
    LET r == _read_n_ints(f, p, 5)
    IN  [v |-> DateTime(r.v[1], r.v[2], r.v[3], r.v[4], r.v[5], 0), pos |-> r.pos]

(* _read_datetime: five integers, then the constructor or the fallback     *)
_read_datetime(f, p) ==
    LET r == _read_n_ints(f, p, 5)
        year == r.v[1]
        month == r.v[2]
        day == r.v[3]
        hour == r.v[4]
        minute == r.v[5]
    IN  [v |-> IF ValidDateTime(year, month, day, hour, minute)
               THEN DateTime(year, month, day, hour, minute, 0)
               ELSE FALLBACK_DATE,
         pos |-> r.pos]

(* datetime - datetime, a timedelta normalised to (days, seconds) *)
DateTimeSub(a, b) ==
    LET ds == Ymd2Ord(a.year, a.month, a.day) - Ymd2Ord(b.year, b.month, b.day)
        ss == (a.hour * 3600 + a.minute * 60 + a.second)
              - (b.hour * 3600 + b.minute * 60 + b.second)
    IN  [days |-> ds + ss \div SECONDS_PER_DAY, seconds |-> ss % SECONDS_PER_DAY]

(* "%02d" and "%04d" of a non-negative integer *)
Pad2(n) == IF n < 10 THEN "0" \o ToString(n) ELSE ToString(n)
Pad4(n) ==
    IF n < 10 THEN "000" \o ToString(n)
    ELSE IF n < 100 THEN "00" \o ToString(n)
    ELSE IF n < 1000 THEN "0" \o ToString(n)
    ELSE ToString(n)

(* datetime.isoformat() of a value without microseconds *)
IsoFormat(dt) ==
    Pad4(dt.year) \o "-" \o Pad2(dt.month) \o "-" \o Pad2(dt.day) \o "T"
    \o Pad2(dt.hour) \o ":" \o Pad2(dt.minute) \o ":" \o Pad2(dt.second)

(* str(timedelta): "[D day[s], ]H:MM:SS" *)
TimeDeltaStr(td) ==
    LET hms == ToString(td.seconds \div 3600) \o ":" \o Pad2((td.seconds \div 60) % 60)
               \o ":" \o Pad2(td.seconds % 60)
    IN  IF td.days # 0
        THEN ToString(td.days) \o " day"
             \o (IF td.days \notin {1, -1} THEN "s" ELSE "") \o ", " \o hms
        ELSE hms

(* _create_time_index: [start_date + interval * i for i in range(n)];      *)
(* ok is FALSE when an element's computation raises OverflowError.         *)
(* the index counted from one: start_date + interval * (i + 1) *)
TimeIndexItem_from_one(start, interval, i) ==
    LET d == TimeDeltaMul(interval, i + 1)
    IN  IF d.ok THEN DateTimeAdd(start, d) ELSE [ok |-> FALSE, v |-> start]

TimeIndexItem(start, interval, i) ==
    LET d == TimeDeltaMul(interval, i)
        r == IF d.ok THEN DateTimeAdd(start, d) ELSE [ok |-> FALSE, v |-> start]
    IN  r

_create_time_index(start, interval, n) ==
    LET items == [i \in 1 .. Max(n, 0) |-> TimeIndexItem(start, interval, i - 1)]
    IN  [ok |-> \A i \in 1 .. Max(n, 0) : items[i].ok,
         v |-> [i \in 1 .. Max(n, 0) |-> items[i].v]]

-----------------------------------------------------------------------------
(* Code tables.  Each lookup is `table[code] if code < len(table) else     *)
(* placeholder`; ok is FALSE where the list index raises IndexError.       *)

LookupCode(table, code, placeholder) ==
    IF code < Len(table)
    THEN IF IndexInRange(table, code)
         THEN [ok |-> TRUE, v |-> ListIndex(table, code)]
         ELSE [ok |-> FALSE, v |-> placeholder]
    ELSE [ok |-> TRUE, v |-> placeholder]

FlowUnit(flow_unit_code) == LookupCode(FLOW_UNITS, flow_unit_code, "UNKNOWN")
ConcentrationUnit(unit_code) == LookupCode(CONCENTRATION_UNITS, unit_code, "UNKNOWN")
PropertyName(prop_code) ==
    LookupCode(PROPERTY_LABELS, prop_code, "property_" \o ToString(prop_code))
NodeType(type_code) == LookupCode(NODE_TYPES, type_code, "UNKNOWN_" \o ToString(type_code))
(* the link branch looking its code up in the node table *)
LinkType_node_table(type_code) ==
    LookupCode(NODE_TYPES, type_code, "UNKNOWN_" \o ToString(type_code))

LinkType(type_code) == LookupCode(LINK_TYPES, type_code, "UNKNOWN_" \o ToString(type_code))

(* the minor field left unreduced: {version // 100} *)
VersionStr_minor_unreduced(v) ==
    ToString(v \div 10000) \o "." \o ToString(v \div 100) \o "." \o ToString(v % 100)

VersionStr(v) ==
    ToString(v \div 10000) \o "." \o ToString((v \div 100) % 100) \o "." \o ToString(v % 100)

(* dict[key] = value *)
DictSet(d, key, value) == (key :> value) @@ d

-----------------------------------------------------------------------------
(* _read_object_properties                                                 *)

(* the loop over the property codes of a block *)
RECURSIVE ReadPropCodes(_, _, _)
ReadPropCodes(f, p, n_props) ==
    IF n_props <= 0 THEN [ok |-> TRUE, v |-> <<>>, pos |-> p]
    ELSE LET r == _read_int(f, p)
             name == PropertyName(r.v)
         IN  IF ~name.ok THEN [ok |-> FALSE, v |-> <<>>, pos |-> r.pos]
             ELSE LET rest == ReadPropCodes(f, r.pos, n_props - 1)
                  IN  [ok |-> rest.ok, v |-> <<name.v>> \o rest.v, pos |-> rest.pos]

(* a type code that is not stored is not read either *)
ReadPropValue_unread_when_dropped(f, p, prop_name, obj_type, row) ==
    IF prop_name = "type"
    THEN LET r == _read_int(f, p)
             t == IF obj_type = "node" THEN NodeType(r.v) ELSE LinkType(r.v)
         IN  IF obj_type \in {"node", "link"}
             THEN [ok |-> t.ok,
                   v |-> IF t.ok THEN DictSet(row, prop_name, StrVal(t.v)) ELSE row,
                   pos |-> r.pos]
             ELSE [ok |-> TRUE, v |-> row, pos |-> p]
    ELSE LET r == _read_float(f, p)
         IN  [ok |-> TRUE, v |-> DictSet(row, prop_name, r.v), pos |-> r.pos]

(* one value of an object's row: a type code or a float *)
ReadPropValue(f, p, prop_name, obj_type, row) ==
    IF prop_name = "type"
    THEN LET r == _read_int(f, p)
             t == IF obj_type = "node" THEN NodeType(r.v) ELSE LinkType(r.v)
         IN  IF obj_type \in {"node", "link"}
             THEN [ok |-> t.ok,
                   v |-> IF t.ok THEN DictSet(row, prop_name, StrVal(t.v)) ELSE row,
                   pos |-> r.pos]
             ELSE [ok |-> TRUE, v |-> row, pos |-> r.pos]
    ELSE LET r == _read_float(f, p)
         IN  [ok |-> TRUE, v |-> DictSet(row, prop_name, r.v), pos |-> r.pos]

(* the inner loop: one object's values, in the order of the block's codes *)
RECURSIVE ReadRow(_, _, _, _, _)
ReadRow(f, p, prop_codes, obj_type, row) ==
    IF prop_codes = <<>> THEN [ok |-> TRUE, v |-> row, pos |-> p]
    ELSE LET r == ReadPropValue(f, p, Head(prop_codes), obj_type, row)
         IN  IF ~r.ok THEN r
             ELSE ReadRow(f, r.pos, Tail(prop_codes), obj_type, r.v)

(* a label already in the table keeps its first row *)
StoreRow_keep_first(props, label, row) ==
    IF label \in DOMAIN props THEN props ELSE DictSet(props, label, row)

(* properties[label] = {} and then the row's values *)
StoreRow(props, label, row) == DictSet(props, label, row)

(* an outer loop that skips, unread, the row of a label already stored *)
RECURSIVE ReadRows_skip_repeated(_, _, _, _, _, _)
ReadRows_skip_repeated(f, p, labs, prop_codes, obj_type, props) ==
    IF labs = <<>> THEN [ok |-> TRUE, v |-> props, pos |-> p]
    ELSE IF Head(labs) \in DOMAIN props
    THEN ReadRows_skip_repeated(f, p, Tail(labs), prop_codes, obj_type, props)
    ELSE LET r == ReadRow(f, p, prop_codes, obj_type, EmptyDict)
         IN  IF ~r.ok THEN [ok |-> FALSE, v |-> props, pos |-> r.pos]
             ELSE ReadRows_skip_repeated(f, r.pos, Tail(labs), prop_codes, obj_type,
                                         StoreRow(props, Head(labs), r.v))

(* the outer loop: for label in labels *)
RECURSIVE ReadRows(_, _, _, _, _, _)
ReadRows(f, p, labs, prop_codes, obj_type, props) ==
    IF labs = <<>> THEN [ok |-> TRUE, v |-> props, pos |-> p]
    ELSE LET r == ReadRow(f, p, prop_codes, obj_type, EmptyDict)
         IN  IF ~r.ok THEN [ok |-> FALSE, v |-> props, pos |-> r.pos]
             ELSE ReadRows(f, r.pos, Tail(labs), prop_codes, obj_type,
                           StoreRow(props, Head(labs), r.v))

_read_object_properties(f, p, n_objects, obj_type, labs) ==
    LET n_props == _read_int(f, p)
        codes == ReadPropCodes(f, n_props.pos, n_props.v)
    IN  IF ~codes.ok THEN [ok |-> FALSE, v |-> EmptyDict, pos |-> codes.pos]
        ELSE ReadRows(f, codes.pos, labs, codes.v, obj_type, EmptyDict)

-----------------------------------------------------------------------------
(* The pollutant unit loop of _parse_metadata.                             *)

RECURSIVE ReadPollutantUnits(_, _, _, _, _, _)
ReadPollutantUnits(f, p, i, n_pollutants, labs, units) ==
    IF i >= n_pollutants THEN [ok |-> TRUE, v |-> units, pos |-> p]
    ELSE LET r == _read_int(f, p)
             unit_str == ConcentrationUnit(r.v)
         IN  IF ~unit_str.ok THEN [ok |-> FALSE, v |-> units, pos |-> r.pos]
             ELSE ReadPollutantUnits(f, r.pos, i + 1, n_pollutants, labs,
                      IF i < Len(labs) THEN DictSet(units, labs[i + 1], unit_str.v)
                      ELSE units)

-----------------------------------------------------------------------------
(* f.seek(offset, 2): a position before the start of the file raises       *)
(* OSError (ok is FALSE).                                                  *)

SeekEnd(f, offset) == [ok |-> Len(f) + offset >= 0, pos |-> Len(f) + offset]

(* the footer offset taken from the cursor: f.seek(-6 * RECORD_SIZE, 1) *)
FooterSeek_from_cursor(f, p) ==
    [ok |-> p - 6 * RECORD_SIZE >= 0, pos |-> p - 6 * RECORD_SIZE]

FooterSeek(f, p) == SeekEnd(f, -6 * RECORD_SIZE)

PeriodCount(foot) == foot[3 + 1]

-----------------------------------------------------------------------------
(* SwmmOutput: the derived accessors.                                      *)

(* the last period taken as start + interval * n_periods *)
end_date_all_periods(start, interval_seconds, n) ==
    IF n > 0
    THEN LET d == TimeDeltaMul(TimeDelta(interval_seconds), n)
         IN  IF d.ok THEN DateTimeAdd(start, d) ELSE [ok |-> FALSE, v |-> start]
    ELSE [ok |-> TRUE, v |-> start]

end_date(start, interval_seconds, n) ==
    IF n > 0
    THEN LET d == TimeDeltaMul(TimeDelta(interval_seconds), n - 1)
         IN  IF d.ok THEN DateTimeAdd(start, d) ELSE [ok |-> FALSE, v |-> start]
    ELSE [ok |-> TRUE, v |-> start]

(* the row returned as stored, without the "id" entry *)
GetObject_without_id(table, id) ==
    IF id \in DOMAIN table
    THEN [found |-> TRUE, v |-> table[id]]
    ELSE [found |-> FALSE, v |-> EmptyDict]

(* get_node / get_link / get_subcatchment over the kind's property table *)
GetObject(table, id) ==
    IF id \in DOMAIN table
    THEN [found |-> TRUE, v |-> table[id] @@ ("id" :> id)]
    ELSE [found |-> FALSE, v |-> EmptyDict]

-----------------------------------------------------------------------------
(* decode_file as a state machine: one action per call it makes.           *)

At(a) == [at |-> a, k |-> 0]
AtKind(a, k) == [at |-> a, k |-> k]

Seek(what, to) == [op |-> "seek", what |-> what, from |-> pos, to |-> to]
ReadOf(what, from, to) == [op |-> "read", what |-> what, from |-> from, to |-> to]

CountKey == <<"n_subcatchments", "n_nodes", "n_links", "n_pollutants">>

(* the exception leaving decode_file with the handle still open *)
Raise_keep_open(e) ==
    /\ pc' = At("raised")
    /\ exc' = e
    /\ open_handles' = open_handles

(* leaving the `with` block by an exception: the handle is closed *)
Raise(e) ==
    /\ pc' = At("raised")
    /\ exc' = e
    /\ open_handles' = 0

decoded_vars == <<header, labels, pollutant_units, properties, variables, start_date,
             report_interval_seconds, footer, n_periods, time_index>>

(* open(filepath, "rb") *)
open_file ==
    /\ pc = At("open")
    /\ pc' = At("header")
    /\ open_handles' = open_handles + 1
    /\ pos' = 0
    /\ UNCHANGED <<inp_vars, file, exc, log, decoded_vars, ret>>

HeaderDict(magic_start, w, flow_unit) ==
    [magic_start |-> magic_start,
     version |-> w[1],
     version_str |-> VersionStr(w[1]),
     flow_unit |-> flow_unit,
     flow_unit_code |-> w[2],
     n_subcatchments |-> w[3],
     n_nodes |-> w[4],
     n_links |-> w[5],
     n_pollutants |-> w[6]]

(* the sentinel test weakened to refuse only an absent (zero) sentinel *)
SentinelOk_nonzero(magic_start) == magic_start # 0

SentinelOk(magic_start) == magic_start = MAGIC_NUMBER

HeaderFields == <<"version", "flow_unit_code", "n_subcatchments", "n_nodes",
                  "n_links", "n_pollutants">>

_parse_header ==
    /\ pc = At("header")
    /\ LET magic_start == _read_int(file, 0)
           w == _read_n_ints(file, magic_start.pos, 6)
           flow_unit == FlowUnit(w.v[2])
           first == <<Seek("start", 0), ReadOf("magic_start", 0, magic_start.pos)>>
           fields == [i \in 1 .. 6 |->
                        ReadOf(HeaderFields[i],
                               _read_n_ints(file, magic_start.pos, i - 1).pos,
                               _read_n_ints(file, magic_start.pos, i).pos)]
       IN  IF ~SentinelOk(magic_start.v)
           THEN /\ Raise("ValueError")
                /\ pos' = magic_start.pos
                /\ log' = log \o first
                /\ UNCHANGED header
           ELSE /\ pos' = w.pos
                /\ log' = log \o first \o fields
                /\ IF flow_unit.ok
                   THEN /\ header' = HeaderDict(magic_start.v, w.v, flow_unit.v)
                        /\ pc' = AtKind("labels", 1)
                        /\ UNCHANGED <<exc, open_handles>>
                   ELSE /\ Raise("IndexError")
                        /\ UNCHANGED header
    /\ UNCHANGED <<inp_vars, file, labels, pollutant_units, properties, variables, start_date,
                   report_interval_seconds, footer, n_periods, time_index, ret>>

(* labels[kind] = self._read_string_array(f, header[count of the kind]) *)
read_labels ==
    /\ pc.at = "labels"
    /\ header[CountKey[pc.k]] <= MaxLoop
    /\ LET kind == Kinds[pc.k]
           r == _read_string_array(file, pos, header[CountKey[pc.k]])
       IN  /\ labels' = DictSet(labels, kind, r.v)
           /\ pos' = r.pos
           /\ log' = Append(log, ReadOf("labels." \o kind, pos, r.pos))
    /\ pc' = IF pc.k < 4 THEN AtKind("labels", pc.k + 1) ELSE At("units")
    /\ UNCHANGED <<inp_vars, file, open_handles, exc, header, pollutant_units, properties,
                   variables, start_date, report_interval_seconds, footer,
                   n_periods, time_index, ret>>

read_pollutant_units ==
    /\ pc = At("units")
    /\ header.n_pollutants <= MaxLoop
    /\ LET r == ReadPollutantUnits(file, pos, 0, header.n_pollutants,
                                   labels["pollutant"], EmptyDict)
       IN  /\ pos' = r.pos
           /\ log' = Append(log, ReadOf("pollutant_units", pos, r.pos))
           /\ IF r.ok
              THEN /\ pollutant_units' = r.v
                   /\ pc' = AtKind("properties", 1)
                   /\ UNCHANGED <<exc, open_handles>>
              ELSE /\ Raise("IndexError")
                   /\ UNCHANGED pollutant_units
    /\ UNCHANGED <<inp_vars, file, header, labels, properties, variables, start_date,
                   report_interval_seconds, footer, n_periods, time_index, ret>>

read_properties ==
    /\ pc.at = "properties"
    /\ _read_int(file, pos).v <= MaxLoop
    /\ LET kind == ObjectKinds[pc.k]
           r == _read_object_properties(file, pos, header[CountKey[pc.k]], kind,
                                        labels[kind])
       IN  /\ pos' = r.pos
           /\ log' = Append(log, ReadOf("properties." \o kind, pos, r.pos))
           /\ IF r.ok
              THEN /\ properties' = DictSet(properties, kind, r.v)
                   /\ pc' = IF pc.k < 3 THEN AtKind("properties", pc.k + 1)
                            ELSE At("variables")
                   /\ UNCHANGED <<exc, open_handles>>
              ELSE /\ Raise("IndexError")
                   /\ UNCHANGED properties
    /\ UNCHANGED <<inp_vars, file, header, labels, pollutant_units, variables, start_date,
                   report_interval_seconds, footer, n_periods, time_index, ret>>

read_variables ==
    /\ pc = At("variables")
    /\ LET r == _read_n_ints(file, pos, 4)
       IN  /\ variables' = [subcatchment |-> r.v[1], node |-> r.v[2],
                            link |-> r.v[3], system |-> r.v[4]]
           /\ pos' = r.pos
           /\ log' = Append(log, ReadOf("variables", pos, r.pos))
    /\ pc' = At("start")
    /\ UNCHANGED <<inp_vars, file, open_handles, exc, header, labels, pollutant_units,
                   properties, start_date, report_interval_seconds, footer,
                   n_periods, time_index, ret>>

(* start_date = self._read_datetime(f); report_interval_seconds = ...      *)
read_start ==
    /\ pc = At("start")
    /\ LET d == _read_datetime(file, pos)
           i == _read_int(file, d.pos)
       IN  /\ start_date' = d.v
           /\ report_interval_seconds' = i.v
           /\ pos' = i.pos
           /\ log' = log \o <<ReadOf("start_date", pos, d.pos),
                              ReadOf("report_interval", d.pos, i.pos)>>
    /\ pc' = At("footer")
    /\ UNCHANGED <<inp_vars, file, open_handles, exc, header, labels, pollutant_units,
                   properties, variables, footer, n_periods, time_index, ret>>

(* the footer read where the cursor stands, without the seek *)
read_footer_at_cursor ==
    /\ pc = At("footer")
    /\ LET r == _read_n_ints(file, pos, 6)
       IN  /\ footer' = r.v
           /\ n_periods' = PeriodCount(r.v)
           /\ pos' = r.pos
           /\ log' = Append(log, ReadOf("footer", pos, r.pos))
           /\ pc' = At("index")
    /\ UNCHANGED <<inp_vars, file, exc, open_handles, header, labels, pollutant_units,
                   properties, variables, start_date, report_interval_seconds,
                   time_index, ret>>

(* f.seek(-6 * RECORD_SIZE, 2); footer = self._read_n_ints(f, 6)           *)
read_footer ==
    /\ pc = At("footer")
    /\ LET s == FooterSeek(file, pos)
           r == _read_n_ints(file, s.pos, 6)
       IN  IF s.ok
           THEN /\ footer' = r.v
                /\ n_periods' = PeriodCount(r.v)
                /\ pos' = r.pos
                /\ log' = log \o <<Seek("end", s.pos), ReadOf("footer", s.pos, r.pos)>>
                /\ pc' = At("index")
                /\ UNCHANGED <<exc, open_handles>>
           ELSE /\ Raise("OSError")
                /\ log' = Append(log, Seek("end", s.pos))
                /\ UNCHANGED <<footer, n_periods, pos>>
    /\ UNCHANGED <<inp_vars, file, header, labels, pollutant_units, properties, variables,
                   start_date, report_interval_seconds, time_index, ret>>

(* time_index = self._create_time_index(...); return {...}                 *)
create_time_index ==
    /\ pc = At("index")
    /\ n_periods <= MaxLoop
    /\ LET r == _create_time_index(start_date, TimeDelta(report_interval_seconds),
                                   n_periods)
       IN  IF r.ok
           THEN /\ time_index' = r.v
                /\ pc' = At("done")
                /\ open_handles' = 0
                /\ UNCHANGED exc
           ELSE /\ Raise("OverflowError")
                /\ UNCHANGED time_index
    /\ UNCHANGED <<inp_vars, file, pos, log, header, labels, pollutant_units, properties,
                   variables, start_date, report_interval_seconds, footer,
                   n_periods, ret>>

-----------------------------------------------------------------------------
(* SwmmOutput over a decoded file: calls on the facade.                    *)

AbsentLabel == <<90>>

facade_end_date ==
    /\ pc = At("done")
    /\ LET r == end_date(start_date, report_interval_seconds, n_periods)
       IN  ret' = [op |-> "end_date", arg |-> <<>>, ok |-> r.ok, v |-> r.v]
    /\ UNCHANGED <<inp_vars, file, pc, pos, open_handles, exc, log, decoded_vars>>

(* the @property accessors that return a stored field *)
PropertyNames ==
    <<"version", "flow_unit", "start_date", "report_interval", "n_periods",
      "time_index", "n_subcatchments", "n_nodes", "n_links", "n_pollutants",
      "subcatchment_labels", "node_labels", "link_labels", "pollutant_labels",
      "pollutant_units", "node_properties", "link_properties",
      "subcatchment_properties">>

Property(name) ==
    CASE name = "version" -> header.version_str
      [] name = "flow_unit" -> header.flow_unit
      [] name = "start_date" -> start_date
      [] name = "report_interval" -> TimeDelta(report_interval_seconds)
      [] name = "n_periods" -> n_periods
      [] name = "time_index" -> time_index
      [] name = "n_subcatchments" -> header.n_subcatchments
      [] name = "n_nodes" -> header.n_nodes
      [] name = "n_links" -> header.n_links
      [] name = "n_pollutants" -> header.n_pollutants
      [] name = "subcatchment_labels" -> labels["subcatchment"]
      [] name = "node_labels" -> labels["node"]
      [] name = "link_labels" -> labels["link"]
      [] name = "pollutant_labels" -> labels["pollutant"]
      [] name = "pollutant_units" -> pollutant_units
      [] name = "node_properties" -> properties["node"]
      [] name = "link_properties" -> properties["link"]
      [] name = "subcatchment_properties" -> properties["subcatchment"]

facade_property ==
    /\ pc = At("done")
    /\ \E i \in 1 .. Len(PropertyNames) :
          ret' = [op |-> PropertyNames[i], arg |-> <<>>, ok |-> TRUE,
                  v |-> Property(PropertyNames[i])]
    /\ UNCHANGED <<inp_vars, file, pc, pos, open_handles, exc, log, decoded_vars>>

(* the merged mapping written back into the property table before it is   *)
(* returned                                                                *)
facade_get_storing_id ==
    /\ pc = At("done")
    /\ \E k \in 1 .. 3 :
         \E id \in UNION {{labels[Kinds[j]][i] : i \in 1 .. Len(labels[Kinds[j]])} :
                              j \in 1 .. 4} \cup {<<>>, AbsentLabel} :
            LET r == GetObject(properties[ObjectKinds[k]], id)
            IN  /\ ret' = [op |-> "get_" \o ObjectKinds[k], arg |-> id,
                           ok |-> r.found, v |-> r.v]
                /\ properties' = IF r.found
                                 THEN [properties EXCEPT ![ObjectKinds[k]][id] = r.v]
                                 ELSE properties
    /\ UNCHANGED <<inp_vars, file, pc, pos, open_handles, exc, log, header, labels,
                   pollutant_units, variables, start_date, report_interval_seconds,
                   footer, n_periods, time_index>>

(* summary() *)
Summary ==
    LET e == end_date(start_date, report_interval_seconds, n_periods)
    IN  [ok |-> e.ok,
         v |-> [version |-> Property("version"),
                flow_unit |-> Property("flow_unit"),
                start_date |-> IsoFormat(start_date),
                end_date |-> IsoFormat(e.v),
                duration |-> TimeDeltaStr(DateTimeSub(e.v, start_date)),
                report_interval |-> TimeDeltaStr(Property("report_interval")),
                n_periods |-> Property("n_periods"),
                n_subcatchments |-> Property("n_subcatchments"),
                n_nodes |-> Property("n_nodes"),
                n_links |-> Property("n_links"),
                n_pollutants |-> Property("n_pollutants"),
                pollutants |-> Property("pollutant_labels")]]

facade_summary ==
    /\ pc = At("done")
    /\ ret' = [op |-> "summary", arg |-> <<>>, ok |-> Summary.ok, v |-> Summary.v]
    /\ UNCHANGED <<inp_vars, file, pc, pos, open_handles, exc, log, decoded_vars>>

(* identifiers asked for: every label of the file, of whatever kind, the  *)
(* empty string and a label no generated file holds                        *)
QueryIds ==
    UNION {{labels[Kinds[k]][i] : i \in 1 .. Len(labels[Kinds[k]])} : k \in 1 .. 4}
    \cup {<<>>, AbsentLabel}

facade_get ==
    /\ pc = At("done")
    /\ \E k \in 1 .. 3 :
         \E id \in QueryIds :
            LET r == GetObject(properties[ObjectKinds[k]], id)
            IN  ret' = [op |-> "get_" \o ObjectKinds[k], arg |-> id,
                        ok |-> r.found, v |-> r.v]
    /\ UNCHANGED <<inp_vars, file, pc, pos, open_handles, exc, log, decoded_vars>>

-----------------------------------------------------------------------------
(* SwmmOutputEncoder over a SwmmOutput.  A call's outcome is the exception *)
(* it raises ("none" when it returns), the directories it creates if       *)
(* absent and the files it writes, each with the document written.         *)

(* json.dump of a float: a finite or infinite value is written so that it  *)
(* reads back as itself, every NaN is written as the one token NaN         *)
JsonFloat(x) ==
    IF x.exp = 255 /\ x.mant # 0 THEN FloatVal(0, 255, 4194304) ELSE x
JsonValue(x) == IF x.kind = "float" THEN JsonFloat(x) ELSE x
JsonProperties(props) ==
    [kind \in DOMAIN props |->
        [label \in DOMAIN props[kind] |->
            [name \in DOMAIN props[kind][label] |-> JsonValue(props[kind][label][name])]]]

(* output_data of encode_to_json *)
JsonDocument ==
    [header |-> header,
     metadata |-> [labels |-> labels,
                   pollutant_units |-> pollutant_units,
                   properties |-> JsonProperties(properties),
                   variables |-> variables,
                   start_date |-> IsoFormat(start_date),
                   report_interval_seconds |-> report_interval_seconds,
                   n_periods |-> n_periods],
     summary |-> Summary.v]

Outcome(e, dirs, files) == [exc |-> e, dirs |-> dirs, files |-> files]
Parent(filepath) == [stem |-> "parent of " \o filepath.stem, suffix |-> ""]
(* a file written at `path`, or at path / name when path is a directory *)
FileOf(path, name, format, doc) ==
    [path |-> path, name |-> name, format |-> format, doc |-> doc]

encode_to_json(filepath) ==
    Outcome("none", {Parent(filepath)}, <<FileOf(filepath, "", "json", JsonDocument)>>)

(* encode_to_json handed the decoded dictionary instead of a SwmmOutput:  *)
(* the parent directory is made, then output._data raises AttributeError   *)
(* before anything is opened for writing                                   *)
encode_to_json_of_dict(filepath) ==
    Outcome("AttributeError", {Parent(filepath)}, <<>>)

(* ", ".join(str(v) for v in value) over labels *)
RECURSIVE JoinLabels(_)
JoinLabels(ls) ==
    IF ls = <<>> THEN <<>>
    ELSE IF Len(ls) = 1 THEN ls[1]
    ELSE ls[1] \o <<44, 32>> \o JoinLabels(Tail(ls))

SummaryKeys ==
    <<"version", "flow_unit", "start_date", "end_date", "duration", "report_interval",
      "n_periods", "n_subcatchments", "n_nodes", "n_links", "n_pollutants",
      "pollutants">>

(* the rows {"field": key, "value": str(value)} built from summary() *)
SummaryRows ==
    [i \in 1 .. Len(SummaryKeys) |->
        LET key == SummaryKeys[i]
            value == Summary.v[key]
        IN  [field |-> key,
             value |-> IF key = "pollutants" THEN JoinLabels(value)
                       ELSE IF key \in {"n_periods", "n_subcatchments", "n_nodes",
                                        "n_links", "n_pollutants"}
                            THEN ToString(value)
                       ELSE value]]

(* the rows of one kind's table: get_<kind>(label) for each label *)
ObjectRows(kind) ==
    [i \in 1 .. Len(labels[kind]) |-> GetObject(properties[kind], labels[kind][i]).v]

TableName(kind) ==
    CASE kind = "node" -> "nodes.parquet"
      [] kind = "link" -> "links.parquet"
      [] kind = "subcatchment" -> "subcatchments.parquet"

ObjectTable(dirpath, kind) ==
    IF labels[kind] # <<>>
    THEN <<FileOf(dirpath, TableName(kind), "parquet", ObjectRows(kind))>>
    ELSE <<>>

NoPath == [stem |-> "None", suffix |-> ""]

(* libs: pandas and pyarrow can be imported *)
encode_to_parquet(filepath, single_file, libs) ==
    IF ~libs THEN Outcome("ImportError", {}, <<>>)
    ELSE IF filepath = NoPath THEN Outcome("ValueError", {}, <<>>)
    ELSE IF single_file
         THEN Outcome("none", {Parent(filepath)},
                      <<FileOf(filepath, "", "parquet", SummaryRows)>>)
    ELSE Outcome("none", {filepath},
                 ObjectTable(filepath, "node") \o ObjectTable(filepath, "link")
                 \o ObjectTable(filepath, "subcatchment")
                 \o <<FileOf(filepath, "summary.parquet", "parquet", SummaryRows)>>)

(* str.lower() on the suffixes explored *)
Lower(suffix) ==
    CASE suffix = ".JSON" -> ".json"
      [] suffix = ".PARQUET" -> ".parquet"
      [] suffix = ".INP" -> ".inp"
      [] suffix = ".Inp" -> ".inp"
      [] OTHER -> suffix

(* an extension outside the map left without a format *)
FormatOfSuffix_no_default(ext) ==
    IF ext = ".json" THEN "json" ELSE IF ext = ".parquet" THEN "parquet" ELSE "None"

(* format_map.get(ext, "json") *)
FormatOfSuffix(ext) ==
    IF ext = ".json" THEN "json" ELSE IF ext = ".parquet" THEN "parquet" ELSE "json"

encode_to_file(filepath, file_format, libs) ==
    LET fmt == IF file_format = "None" THEN FormatOfSuffix(Lower(filepath.suffix))
               ELSE file_format
    IN  IF fmt = "json" THEN encode_to_json(filepath)
        ELSE IF fmt = "parquet" THEN encode_to_parquet(filepath, TRUE, libs)
        ELSE Outcome("ValueError", {}, <<>>)

Suffixes == {".json", ".JSON", ".parquet", ".PARQUET", ".dat", ""}
Paths == {[stem |-> "output", suffix |-> x] : x \in Suffixes}
Formats == {"None", "json", "parquet", "csv", "JSON", ""}

Result(op, arg, o) ==
    [op |-> op, arg |-> arg, ok |-> o.exc = "none", v |-> o.exc,
     dirs |-> o.dirs, files |-> o.files]

export_file ==
    /\ pc = At("done")
    /\ \E filepath \in Paths, file_format \in Formats, libs \in BOOLEAN :
          ret' = Result("encode_to_file", <<filepath, file_format, libs>>,
                        encode_to_file(filepath, file_format, libs))
    /\ UNCHANGED <<inp_vars, file, pc, pos, open_handles, exc, log, decoded_vars>>

export_json ==
    /\ pc = At("done")
    /\ \E filepath \in {[stem |-> "output", suffix |-> ".json"]} :
          ret' = Result("encode_to_json", <<filepath>>, encode_to_json(filepath))
    /\ UNCHANGED <<inp_vars, file, pc, pos, open_handles, exc, log, decoded_vars>>

export_json_of_dict ==
    /\ pc = At("done")
    /\ \E filepath \in {[stem |-> "output_no_summary", suffix |-> ".json"]} :
          ret' = Result("encode_to_json", <<filepath, "dict">>,
                        encode_to_json_of_dict(filepath))
    /\ UNCHANGED <<inp_vars, file, pc, pos, open_handles, exc, log, decoded_vars>>

export_parquet ==
    /\ pc = At("done")
    /\ \E filepath \in {[stem |-> "output", suffix |-> ".parquet"], NoPath},
          single_file \in BOOLEAN, libs \in BOOLEAN :
          ret' = Result("encode_to_parquet", <<filepath, single_file, libs>>,
                        encode_to_parquet(filepath, single_file, libs))
    /\ UNCHANGED <<inp_vars, file, pc, pos, open_handles, exc, log, decoded_vars>>

-----------------------------------------------------------------------------
(* The files explored.  A file is laid out from a description (header      *)
(* words, labels with their length prefixes, unit codes, property blocks,  *)
(* variable counts, start date, interval, per-step words, footer); the     *)
(* families below vary one region each, and one family truncates a full    *)
(* file at every length.                                                   *)

LE32Nat(n) == <<n % 256, (n \div 256) % 256, (n \div 65536) % 256, n \div 16777216>>
LE32(n) ==
    IF n >= 0 THEN LE32Nat(n)
    ELSE LET c == LE32Nat(-(n + 1)) IN [i \in 1 .. 4 |-> 255 - c[i]]

RECURSIVE Concat(_)
Concat(ss) == IF ss = <<>> THEN <<>> ELSE Head(ss) \o Concat(Tail(ss))

Words(ws) == Concat([i \in 1 .. Len(ws) |-> LE32(ws[i])])

Lab(n, b) == [n |-> n, b |-> b]
LabelBytes(l) == LE32(l.n) \o l.b
Block(codes, rows) == [codes |-> codes, rows |-> rows]
BlockBytes(b) == Words(<<Len(b.codes)>> \o b.codes \o Concat(b.rows))

Build(d) ==
    Words(<<d.magic, d.version, d.flow>> \o d.counts)
    \o Concat([k \in 1 .. 4 |->
                 Concat([i \in 1 .. Len(d.labs[k]) |-> LabelBytes(d.labs[k][i])])])
    \o Words(d.units)
    \o Concat([k \in 1 .. 3 |-> BlockBytes(d.props[k])])
    \o Words(d.vars \o d.date \o <<d.interval>> \o d.pad \o d.foot)

Foot(n) == <<28, 100, 200, n, 0, MAGIC_NUMBER>>

Base ==
    [magic |-> MAGIC_NUMBER, version |-> 50200, flow |-> 0,
     counts |-> <<0, 0, 0, 0>>,
     labs |-> <<<<>>, <<>>, <<>>, <<>>>>,
     units |-> <<>>,
     props |-> <<Block(<<>>, <<>>), Block(<<>>, <<>>), Block(<<>>, <<>>)>>,
     vars |-> <<8, 6, 5, 15>>,
     date |-> <<2020, 1, 1, 0, 0>>,
     interval |-> 900,
     pad |-> <<>>,
     foot |-> Foot(2)]

(* 1.0, 2.5, -1.0 and 0.15625 as float32 bit patterns *)
FloatWords == <<1065353216, 1075838976, -1082130432, 1042284544>>
PadWords(n) == [i \in 1 .. n |-> FloatWords[((i - 1) % 4) + 1]]

(* "J1", "J2", "", "J1" NUL-padded, "J" followed by an invalid byte *)
LabelPool ==
    {Lab(2, <<74, 49>>), Lab(2, <<74, 50>>), Lab(0, <<>>), Lab(4, <<74, 49, 0, 0>>),
     Lab(2, <<74, 255>>)}

TypeCodes == <<0, 1, 3, 4, -1>>
CodeLists == {<<>>, <<0>>, <<0, 2>>, <<2, 0, 3>>, <<0, 0>>, <<7, 0>>, <<-1, 1>>, <<-7>>}
UnitCodes == <<0, 1, 2, 3, -1, -4>>
FlowCodes == {-7, -6, -1, 0, 3, 5, 6, 9}

Rot(s, i) == s[((i - 1) % Len(s)) + 1]

(* the value words of object i of a block: type codes rotate from t *)
RowWords(codes, i, t) ==
    [j \in 1 .. Len(codes) |->
        IF codes[j] \in {0, -6} THEN Rot(TypeCodes, t + i - 1)
        ELSE Rot(FloatWords, i + j)]

HeaderFiles ==
    {Build([Base EXCEPT !.magic = m, !.version = v, !.flow = fl]) :
        m \in {MAGIC_NUMBER, MAGIC_NUMBER + 1, 0, -1},
        v \in {50200, 50100, 51015},
        fl \in FlowCodes}

(* versions with one- and two-digit fields, a field of zero, a major past  *)
(* one digit, the largest int32 and negative versions                      *)
VersionPool == {0, 7, 99, 100, 10000, 50022, 51015, 123456789, 2147483647, -1, -9797,
                -2147473648}
VersionFiles == {Build([Base EXCEPT !.version = v]) : v \in VersionPool}

ObjectFiles ==
    UNION {UNION {
        {Build([Base EXCEPT !.counts[k] = n,
                            !.labs[k] = ls,
                            !.props[k] = Block(codes,
                                 [i \in 1 .. n |-> RowWords(codes, i, t)])]) :
            ls \in [1 .. n -> LabelPool], codes \in CodeLists,
            t \in 1 .. Len(TypeCodes)} :
        n \in 0 .. MaxObjects} : k \in 1 .. 3}

PollutantFiles ==
    UNION {
        {Build([Base EXCEPT !.counts[4] = n,
                            !.labs[4] = ls,
                            !.units = [i \in 1 .. n |-> Rot(UnitCodes, u + i - 1)]]) :
            ls \in [1 .. n -> LabelPool], u \in 1 .. Len(UnitCodes)} :
        n \in 0 .. MaxObjects}

DatePool ==
    {<<2020, 1, 1, 0, 0>>, <<2020, 2, 29, 23, 45>>, <<2021, 2, 29, 0, 0>>,
     <<2020, 13, 1, 0, 0>>, <<2020, 1, 0, 0, 0>>, <<0, 1, 1, 0, 0>>,
     <<2020, 1, 1, 24, 0>>, <<2020, 1, 1, 0, -1>>, <<9999, 12, 31, 23, 59>>,
     <<1, 1, 1, 0, 0>>, <<1999, 12, 31, 23, 59>>}
IntervalPool == {-2147483647 - 1, -900, 0, 1, 900, 86400, 2147483647}

(* calendar edge cases: century years, month ends, fields at the int32    *)
(* limits, a field one past its range                                      *)
EdgeDates ==
    {<<1900, 2, 29, 0, 0>>, <<2000, 2, 29, 12, 30>>, <<2024, 4, 31, 0, 0>>,
     <<2024, 4, 30, 23, 59>>, <<2020, 0, 1, 0, 0>>, <<2020, 1, 1, -1, 0>>,
     <<2020, 1, 1, 0, 60>>, <<10000, 1, 1, 0, 0>>, <<-2020, 1, 1, 0, 0>>,
     <<2147483647, 1, 1, 0, 0>>, <<2020, 1, -2147483647 - 1, 0, 0>>,
     <<2020, 12, 31, 23, 59>>, <<2020, 1, 32, 0, 0>>, <<2000, 1, 1, 0, 0>>}
DateFiles == {Build([Base EXCEPT !.date = d]) : d \in EdgeDates}

TimeFiles ==
    {Build([Base EXCEPT !.date = d, !.interval = iv, !.pad = PadWords(np),
                        !.foot = Foot(n)]) :
        d \in DatePool, iv \in IntervalPool, np \in 0 .. MaxPad,
        n \in -2 .. MaxPeriods}

(* seventeen quarter-hour periods from 2020-01-01 00:00 *)
ScenarioFiles == {Build([Base EXCEPT !.foot = Foot(17), !.pad = PadWords(p)]) : p \in 0 .. 1}

(* a file with objects of every kind *)
Full ==
    [Base EXCEPT
        !.flow = 3,
        !.counts = <<1, 2, 1, 1>>,
        !.labs = <<<<Lab(2, <<83, 49>>)>>,
                   <<Lab(2, <<74, 49>>), Lab(4, <<74, 50, 0, 0>>)>>,
                   <<Lab(2, <<67, 49>>)>>,
                   <<Lab(3, <<84, 83, 83>>)>>>>,
        !.units = <<0>>,
        !.props = <<Block(<<1>>, <<<<FloatWords[2]>>>>),
                    Block(<<0, 2, 3>>, <<<<0, FloatWords[1], FloatWords[2]>>,
                                         <<1, FloatWords[3], FloatWords[4]>>>>),
                    Block(<<0, 4, 4, 3, 5>>,
                          <<<<0, FloatWords[1], FloatWords[1], FloatWords[2],
                              FloatWords[4]>>>>)>>,
        !.pad = PadWords(1)]

TruncatedFiles == {SubSeq(Build(Full), 1, n) : n \in 0 .. Len(Build(Full))}

(* a count field that disagrees with the labels present, and label length  *)
(* prefixes that are negative or run past the end of the file              *)
CountFiles ==
    {Build([Full EXCEPT !.counts[k] = c]) :
        k \in 1 .. 4, c \in {-2147483647 - 1, -2, -1, 0, 1, 2, MaxObjects + 1}}
    \cup {Build([Base EXCEPT !.counts[k] = c]) :
        k \in 1 .. 4, c \in {-2147483647 - 1, -2, -1, 1, MaxObjects + 1}}

PrefixFiles ==
    {Build([Full EXCEPT !.labs[2][1] = Lab(n, <<74, 49>>)]) :
        n \in {-2147483647 - 1, -1, 0, 1, 3, 200, 2147483647}}

(* type, unit and property codes outside the rotation of ObjectFiles *)
CodeFiles ==
    {Build([Full EXCEPT !.props[k].rows[1][1] = c]) :
        k \in 2 .. 3, c \in {-2147483647 - 1, -6, -5, -4, 2, 5, 7, 2147483647}}
    \cup {Build([Full EXCEPT !.props[k].codes[1] = c]) :
        k \in 1 .. 3, c \in {-2147483647 - 1, -7, -6, -1, 0, 5, 6, 2147483647}}
    \cup {Build([Full EXCEPT !.units[1] = c]) : c \in {-2147483647 - 1, -3, 2147483647}}

Files ==
    HeaderFiles \cup VersionFiles \cup DateFiles \cup ObjectFiles \cup PollutantFiles \cup TimeFiles
    \cup ScenarioFiles \cup TruncatedFiles \cup CountFiles \cup PrefixFiles \cup CodeFiles

UnsetDate == DateTime(0, 0, 0, 0, 0, 0)

Init ==
    /\ file \in Files
    /\ pc = At("open")
    /\ pos = 0
    /\ open_handles = 0
    /\ exc = "none"
    /\ log = <<>>
    /\ header = EmptyDict
    /\ labels = EmptyDict
    /\ pollutant_units = EmptyDict
    /\ properties = EmptyDict
    /\ variables = EmptyDict
    /\ start_date = UnsetDate
    /\ report_interval_seconds = 0
    /\ footer = <<>>
    /\ n_periods = 0
    /\ time_index = <<>>
    /\ ret = [op |-> "none"]
    /\ NoInput

Next ==
    \/ open_file
    \/ _parse_header
    \/ read_labels
    \/ read_pollutant_units
    \/ read_properties
    \/ read_variables
    \/ read_start
    \/ read_footer
    \/ create_time_index
    \/ facade_end_date

Spec == Init /\ [][Next]_vars

-----------------------------------------------------------------------------
(* The encoder over decoded files: files with objects of every kind, with  *)
(* pollutants and their units, with repeated labels, and with property     *)
(* values that are infinite or not a number.                               *)

(* +inf, -inf, the NaN Python writes, a NaN with sign and payload, -0.0 *)
SpecialFloatWords == {2139095040, -8388608, 2143289344, -1, -2147483647 - 1}

ExportFiles ==
    ScenarioFiles \cup {Build(Full), Build(Base)}
    \cup {Build([Full EXCEPT !.props[2].rows[1][2] = w]) : w \in SpecialFloatWords}
    \cup {Build([Base EXCEPT !.counts[4] = 1, !.labs[4] = <<l>>, !.units = <<u>>]) :
             l \in LabelPool, u \in {0, 1, 2, 3}}
    \cup {Build([Base EXCEPT !.counts[k] = 2,
                             !.labs[k] = <<Lab(2, <<74, 49>>), l>>,
                             !.props[k] = Block(<<0, 2>>,
                                            [i \in 1 .. 2 |-> RowWords(<<0, 2>>, i, 1)])]) :
             l \in LabelPool, k \in 1 .. 3}

InitExport ==
    /\ file \in ExportFiles
    /\ pc = At("open")
    /\ pos = 0
    /\ open_handles = 0
    /\ exc = "none"
    /\ log = <<>>
    /\ header = EmptyDict
    /\ labels = EmptyDict
    /\ pollutant_units = EmptyDict
    /\ properties = EmptyDict
    /\ variables = EmptyDict
    /\ start_date = UnsetDate
    /\ report_interval_seconds = 0
    /\ footer = <<>>
    /\ n_periods = 0
    /\ time_index = <<>>
    /\ ret = [op |-> "none"]
    /\ NoInput

NextExport ==
    \/ open_file
    \/ _parse_header
    \/ read_labels
    \/ read_pollutant_units
    \/ read_properties
    \/ read_variables
    \/ read_start
    \/ read_footer
    \/ create_time_index
    \/ export_file
    \/ export_json
    \/ export_json_of_dict
    \/ export_parquet

SpecExport == InitExport /\ [][NextExport]_vars

-----------------------------------------------------------------------------
(* The facade over decoded files: every accessor, end_date, the three      *)
(* lookups and summary, called in any order and any number of times on     *)
(* files that differ in header, version, dates, periods, pollutants and    *)
(* objects.                                                                *)

FacadeFiles ==
    HeaderFiles \cup VersionFiles \cup DateFiles \cup PollutantFiles \cup TimeFiles
    \cup ExportFiles \cup CountFiles \cup PrefixFiles \cup CodeFiles

InitFacade ==
    /\ file \in FacadeFiles
    /\ pc = At("open")
    /\ pos = 0
    /\ open_handles = 0
    /\ exc = "none"
    /\ log = <<>>
    /\ header = EmptyDict
    /\ labels = EmptyDict
    /\ pollutant_units = EmptyDict
    /\ properties = EmptyDict
    /\ variables = EmptyDict
    /\ start_date = UnsetDate
    /\ report_interval_seconds = 0
    /\ footer = <<>>
    /\ n_periods = 0
    /\ time_index = <<>>
    /\ ret = [op |-> "none"]
    /\ NoInput

NextFacade ==
    \/ open_file
    \/ _parse_header
    \/ read_labels
    \/ read_pollutant_units
    \/ read_properties
    \/ read_variables
    \/ read_start
    \/ read_footer
    \/ create_time_index
    \/ facade_end_date
    \/ facade_property
    \/ facade_get
    \/ facade_summary

SpecFacade == InitFacade /\ [][NextFacade]_vars

-----------------------------------------------------------------------------
(* SwmmInput: the sections of a model held in one dictionary, _data.  A    *)
(* value is a string, None, or a reference to a list or a dict; lists and  *)
(* dicts live in `heap` and are shared by reference, as Python objects     *)
(* are.  The caller holds what the calls returned: the object in `ret`     *)
(* and the dictionary `model_dict`.                                        *)

MaxCalls == 3       \* calls made on one SwmmInput
MaxItems == 2       \* elements of a list

Str(s) == [t |-> "str", s |-> s]
NoneVal == [t |-> "None"]
Ref(r) == [t |-> "ref", r |-> r]
(* a list of elements; a dict as its entries in insertion order *)
Entry_(k, v) == [k |-> k, v |-> v]
ListObj(elements) ==
    [t |-> "list", items |-> [i \in 1 .. Len(elements) |-> Entry_("", elements[i])]]
DictObj(entries) == [t |-> "dict", items |-> entries]
(* a dict {"value": value} held as a list element *)
Row(value) == [t |-> "row", value |-> value]

Put(d, k, v) == [x \in DOMAIN d \cup {k} |-> IF x = k THEN v ELSE d[x]]
Without(d, k) == [x \in DOMAIN d \ {k} |-> d[x]]

(* the typed properties of SwmmInput *)
DictSections == {"options", "patterns", "evaporation"}
StrSections == {"hydrographs", "transects"}
ListSections ==
    {"junctions", "outfalls", "storage", "conduits", "pumps", "orifices", "weirs",
     "subcatchments", "raingages", "curves", "timeseries", "controls", "pollutants",
     "landuses", "coverages", "buildup", "washoff", "lid_controls", "lid_usage",
     "files", "rdii", "subareas", "infiltration", "xsections", "losses", "outlets",
     "inflows", "dwf"}
TypedSections == {"title"} \cup DictSections \cup StrSections \cup ListSections

(* what a typed getter stores for an absent section: {}, "" or [] *)
IsMutableDefault(name) == name \notin StrSections
DefaultOf(name) ==
    IF name \in DictSections THEN DictObj(<<>>) ELSE ListObj(<<>>)

IsRef(v) == v.t = "ref"

(* SwmmInput.title: a title stored as a list whose first element is a dict *)
(* with "value" reads as that value, a string as itself, anything else as  *)
(* the empty string                                                        *)
title ==
    LET t == IF "title" \in DOMAIN _data THEN _data["title"] ELSE Str("")
    IN  IF /\ IsRef(t)
           /\ heap[t.r].t = "list"
           /\ Len(heap[t.r].items) > 0
           /\ heap[t.r].items[1].v.t = "row"
        THEN heap[t.r].items[1].v.value
        ELSE IF t.t = "str" THEN t ELSE Str("")

(* generic access *)
__getitem__(key) == IF key \in DOMAIN _data THEN _data[key] ELSE NoneVal
__contains__(key) == key \in DOMAIN _data
(* a listing that leaves out the sections holding an empty list or dict *)
keys_of_nonempty ==
    {k \in DOMAIN _data : IsRef(_data[k]) => heap[_data[k].r].items # <<>>}
keys == DOMAIN _data
items == {<<k, _data[k]>> : k \in DOMAIN _data}

out_vars == <<file, pc, pos, open_handles, exc, log, decoded_vars>>

(* what a load leaves: the exception, the paths opened, the sections and  *)
(* the objects they refer to                                               *)
Loaded(e, opened, data, objects) ==
    [exc |-> e, opened |-> opened, data |-> data, heap |-> objects]

(* The input decoders (SwmmInputDecoder).  Each opens the path it is      *)
(* given, so a missing file raises FileNotFoundError; a file decodes to    *)
(* the sections of the model, the title of a Parquet file as a list of     *)
(* one {"value": title} row.                                               *)
decode_inp_file(filepath, exists) ==
    IF ~exists THEN Loaded("FileNotFoundError", <<filepath>>, EmptyDict, <<>>)
    ELSE Loaded("none", <<filepath>>,
                [k \in {"title", "junctions"} |->
                    IF k = "title" THEN Str("Loaded") ELSE Ref(1)],
                <<ListObj(<<Str("J1")>>)>>)
decode_json(filepath, exists) ==
    IF ~exists THEN Loaded("FileNotFoundError", <<filepath>>, EmptyDict, <<>>)
    ELSE Loaded("none", <<filepath>>,
                [k \in {"title", "options"} |->
                    IF k = "title" THEN Str("Loaded") ELSE Ref(1)],
                <<DictObj(<<Entry_("FLOW_UNITS", Str("CFS"))>>)>>)
decode_parquet(filepath, exists) ==
    IF ~exists THEN Loaded("FileNotFoundError", <<filepath>>, EmptyDict, <<>>)
    ELSE Loaded("none", <<filepath>>,
                [k \in {"title"} |-> Ref(1)],
                <<ListObj(<<Row(Str("Loaded"))>>)>>)

(* a load that opens whatever path it is given, whatever its suffix *)
_load_any_suffix(filepath, exists) == decode_inp_file(filepath, exists)

(* SwmmInput._load *)
_load(filepath, exists) ==
    LET suffix == Lower(filepath.suffix)
    IN  IF suffix = ".inp" THEN decode_inp_file(filepath, exists)
        ELSE IF suffix = ".json" THEN decode_json(filepath, exists)
        ELSE IF suffix = ".parquet" THEN decode_parquet(filepath, exists)
        ELSE Loaded("ValueError", <<>>, EmptyDict, <<>>)

(* the file system: the files that exist, and the paths asked for *)
ExistingFiles ==
    {[stem |-> "model", suffix |-> x] : x \in {".inp", ".json", ".parquet", ".xyz"}}
InputSuffixes ==
    {".inp", ".INP", ".Inp", ".json", ".JSON", ".parquet", ".PARQUET", ".xyz", ".txt",
     ".out", ""}
InputPaths ==
    ExistingFiles
    \cup {[stem |-> "missing", suffix |-> x] : x \in InputSuffixes}

(* SwmmInput(filepath): `if filepath:` is false for None (and for the     *)
(* empty string), and nothing is loaded; any other path is loaded          *)
__init__ ==
    /\ inp_pc = "new"
    /\ \E filepath \in InputPaths \cup {NoPath} :
          LET r == IF filepath = NoPath THEN Loaded("none", <<>>, EmptyDict, <<>>)
                   ELSE _load(filepath, filepath \in ExistingFiles)
          IN  /\ inp_exc' = r.exc
              /\ inp_pc' = IF r.exc = "none" THEN "ready" ELSE "raised"
              /\ opens' = r.opened
              /\ _data' = r.data
              /\ heap' = r.heap
              /\ ret' = [op |-> "init", arg |-> filepath]
    /\ UNCHANGED <<model_dict, calls, out_vars>>

(* the sections, paths and values the calls are made with *)
ExploredTyped == {"title", "options", "junctions", "transects"}
ExploredSections == ExploredTyped \cup {"notes"}

(* values handed to a setter: strings, None, an object the caller already *)
(* holds, or a new list or dict                                            *)
NewObjects ==
    {ListObj(<<Str("J1")>>), ListObj(<<Row(Str("Loaded"))>>),
     DictObj(<<Entry_("START_DATE", Str("01/01/2020"))>>)}
Arguments ==
    {[fresh |-> FALSE, v |-> x, obj |-> NoneVal] :
        x \in {Str("Test"), NoneVal} \cup {Ref(r) : r \in 1 .. Len(heap)}}
    \cup {[fresh |-> TRUE, v |-> Ref(Len(heap) + 1), obj |-> o] : o \in NewObjects}

(* a store that keeps the value a section already has *)
Store_if_absent(key, arg) ==
    /\ _data' = IF key \in DOMAIN _data THEN _data ELSE Put(_data, key, arg.v)
    /\ heap' = IF arg.fresh THEN Append(heap, arg.obj) ELSE heap

(* self._data[key] = value *)
Store(key, arg) ==
    /\ _data' = Put(_data, key, arg.v)
    /\ heap' = IF arg.fresh THEN Append(heap, arg.obj) ELSE heap

Called ==
    /\ inp_pc = "ready"
    /\ calls < MaxCalls
    /\ calls' = calls + 1
    /\ UNCHANGED <<inp_pc, inp_exc, opens, out_vars>>

(* inp.<name> = value, for a typed property *)
set_property ==
    /\ Called
    /\ \E name \in ExploredTyped, arg \in Arguments :
          /\ Store(name, arg)
          /\ ret' = [op |-> "set", key |-> name, v |-> arg.v]
    /\ UNCHANGED model_dict

(* inp[key] = value *)
__setitem__ ==
    /\ Called
    /\ \E key \in ExploredSections, arg \in Arguments :
          /\ Store(key, arg)
          /\ ret' = [op |-> "set", key |-> key, v |-> arg.v]
    /\ UNCHANGED model_dict

(* inp.<name>: title is computed; any other getter first stores the empty *)
(* default when the section is absent, then returns what is stored        *)
Got(v, data, objects) == [v |-> v, data |-> data, heap |-> objects]
(* a getter written with self._data.get(name, default): nothing is stored *)
Getter_without_store(name) ==
    IF name = "title" THEN Got(title, _data, heap)
    ELSE IF name \in DOMAIN _data THEN Got(_data[name], _data, heap)
    ELSE IF IsMutableDefault(name)
    THEN Got(Ref(Len(heap) + 1), _data, Append(heap, DefaultOf(name)))
    ELSE Got(Str(""), _data, heap)
Getter(name) ==
    IF name = "title" THEN Got(title, _data, heap)
    ELSE IF name \in DOMAIN _data THEN Got(_data[name], _data, heap)
    ELSE IF IsMutableDefault(name)
    THEN Got(Ref(Len(heap) + 1), Put(_data, name, Ref(Len(heap) + 1)),
             Append(heap, DefaultOf(name)))
    ELSE Got(Str(""), Put(_data, name, Str("")), heap)

get_property ==
    /\ Called
    /\ \E name \in ExploredTyped :
          /\ ret' = [op |-> "get", key |-> name, v |-> Getter(name).v]
          /\ _data' = Getter(name).data
          /\ heap' = Getter(name).heap
    /\ UNCHANGED model_dict

(* dict.copy(): a new dictionary with the same keys bound to the same    *)
(* values, the objects referred to not copied                              *)
Copy(d) == [k \in DOMAIN d |-> d[k]]

(* a to_dict that returns self._data itself *)
to_dict_by_reference ==
    /\ Called
    /\ model_dict' = [made |-> TRUE, same |-> TRUE, d |-> _data]
    /\ ret' = [op |-> "to_dict"]
    /\ UNCHANGED <<_data, heap>>

(* model_dict = inp.to_dict(): self._data.copy(), a new dictionary (not    *)
(* the same object as self._data) with the same values                     *)
to_dict ==
    /\ Called
    /\ model_dict' = [made |-> TRUE, same |-> FALSE, d |-> Copy(_data)]
    /\ ret' = [op |-> "to_dict"]
    /\ UNCHANGED <<_data, heap>>

(* what the caller does to a list or dict it holds: list.append(x),       *)
(* dict[k] = x                                                             *)
CanMutate(obj) == obj.t = "dict" \/ Len(obj.items) < MaxItems
Mutated(obj) ==
    IF obj.t = "list" THEN [obj EXCEPT !.items = Append(@, Entry_("", Str("J2")))]
    ELSE IF \E i \in 1 .. Len(obj.items) : obj.items[i].k = "INFILTRATION"
    THEN [obj EXCEPT !.items =
             [i \in 1 .. Len(@) |->
                 IF @[i].k = "INFILTRATION" THEN Entry_(@[i].k, Str("HORTON")) ELSE @[i]]]
    ELSE [obj EXCEPT !.items = Append(@, Entry_("INFILTRATION", Str("HORTON")))]

(* inp.options[k] = v, inp.junctions.append(x): on the object the last  *)
(* getter returned                                                         *)
mutate_returned ==
    /\ Called
    /\ ret.op = "get"
    /\ IsRef(ret.v)
    /\ CanMutate(heap[ret.v.r])
    /\ heap' = [heap EXCEPT ![ret.v.r] = Mutated(@)]
    /\ ret' = [op |-> "mutate", key |-> ret.key, v |-> ret.v]
    /\ UNCHANGED <<_data, model_dict>>

(* model_dict[key] = "Modified": on the dictionary the caller holds, which *)
(* is the model's own only if to_dict returned that                        *)
dict_setitem ==
    /\ Called
    /\ model_dict.made
    /\ \E key \in ExploredSections :
          /\ model_dict' = [model_dict EXCEPT !.d = Put(@, key, Str("Modified"))]
          /\ _data' = IF model_dict.same THEN Put(_data, key, Str("Modified")) ELSE _data
          /\ ret' = [op |-> "dict_setitem", key |-> key]
    /\ UNCHANGED heap

(* del model_dict[key] *)
dict_delitem ==
    /\ Called
    /\ model_dict.made
    /\ \E key \in DOMAIN model_dict.d :
          /\ model_dict' = [model_dict EXCEPT !.d = Without(@, key)]
          /\ _data' = IF model_dict.same THEN Without(_data, key) ELSE _data
          /\ ret' = [op |-> "dict_delitem", key |-> key]
    /\ UNCHANGED heap

(* model_dict[key].append(x), model_dict[key][k] = x *)
dict_mutate_value ==
    /\ Called
    /\ model_dict.made
    /\ \E key \in DOMAIN model_dict.d :
          /\ IsRef(model_dict.d[key])
          /\ CanMutate(heap[model_dict.d[key].r])
          /\ heap' = [heap EXCEPT ![model_dict.d[key].r] = Mutated(@)]
          /\ ret' = [op |-> "dict_mutate_value", key |-> key]
    /\ UNCHANGED <<_data, model_dict>>

InitInput ==
    /\ file = <<>>
    /\ pc = At("open")
    /\ pos = 0
    /\ open_handles = 0
    /\ exc = "none"
    /\ log = <<>>
    /\ header = EmptyDict
    /\ labels = EmptyDict
    /\ pollutant_units = EmptyDict
    /\ properties = EmptyDict
    /\ variables = EmptyDict
    /\ start_date = UnsetDate
    /\ report_interval_seconds = 0
    /\ footer = <<>>
    /\ n_periods = 0
    /\ time_index = <<>>
    /\ ret = [op |-> "none"]
    /\ _data = EmptyDict
    /\ heap = <<>>
    /\ model_dict = [made |-> FALSE]
    /\ inp_pc = "new"
    /\ inp_exc = "none"
    /\ opens = <<>>
    /\ calls = 0

NextInput ==
    \/ __init__
    \/ set_property
    \/ __setitem__
    \/ get_property
    \/ to_dict
    \/ mutate_returned
    \/ dict_setitem
    \/ dict_delitem
    \/ dict_mutate_value

SpecInput == InitInput /\ [][NextInput]_vars

-----------------------------------------------------------------------------
(* Reads at absolute offsets, used to state what the decoded values must   *)
(* be in terms of the bytes of the file.                                   *)

Int32At(f, off) ==
    IF off < 0 \/ off > Len(f) - 4 THEN 0 ELSE UnpackInt32(SubSeq(f, off + 1, off + 4))
Float32At(f, off) ==
    IF off < 0 \/ off > Len(f) - 4 THEN FloatZero
    ELSE UnpackFloat32(SubSeq(f, off + 1, off + 4))

Entry(what) == log[CHOOSE i \in 1 .. Len(log) : log[i].what = what]

Decoded == pc = At("done")

Stamp(dt) ==
    [days |-> Ymd2Ord(dt.year, dt.month, dt.day),
     seconds |-> dt.hour * 3600 + dt.minute * 60 + dt.second]
(* b - a as a normalised (days, seconds) pair *)
DeltaBetween(a, b) ==
    LET ds == Stamp(b).days - Stamp(a).days
        ss == Stamp(b).seconds - Stamp(a).seconds
    IN  [days |-> ds + ss \div SECONDS_PER_DAY, seconds |-> ss % SECONDS_PER_DAY]
Before(a, b) ==
    \/ Stamp(a).days < Stamp(b).days
    \/ Stamp(a).days = Stamp(b).days /\ Stamp(a).seconds < Stamp(b).seconds

-----------------------------------------------------------------------------
(* C1: decode_file raises ValueError exactly when the int32 at offset 0    *)
(* (0 for a file shorter than 4 bytes) differs from 516114522; when it     *)
(* raises, only the sentinel has been read and nothing has been decoded.   *)
C1_SentinelGate ==
    /\ pc.at \notin {"open", "header"} =>
          (exc = "ValueError" <=> Int32At(file, 0) # 516114522)
    /\ exc = "ValueError" =>
          /\ pc = At("raised")
          /\ log = <<[op |-> "seek", what |-> "start", from |-> 0, to |-> 0],
                     [op |-> "read", what |-> "magic_start", from |-> 0,
                      to |-> Min(4, Len(file))]>>
          /\ pos = Min(4, Len(file))
          /\ header = EmptyDict /\ labels = EmptyDict /\ properties = EmptyDict
          /\ pollutant_units = EmptyDict /\ variables = EmptyDict
          /\ footer = <<>> /\ time_index = <<>> /\ start_date = UnsetDate

(* a file long enough to hold a whole header, refused for its sentinel *)
C1_Witness ==
    /\ exc = "ValueError"
    /\ Len(file) >= 28
    /\ Int32At(file, 0) = 516114522 + 1

(* C2: with a valid sentinel decode_file never raises (stated as claimed)  *)
C2_NeverRaisesOnValidSentinel ==
    Int32At(file, 0) = 516114522 => exc = "none"

(* C3: after a successful decode len(time_index) == n_periods (stated as   *)
(* claimed, for every period count the footer can hold)                    *)
C3_TimeIndexLength ==
    Decoded => Len(time_index) = n_periods

(* C4: after a successful decode with n_periods > 1 and a positive         *)
(* interval, time_index starts at start_date, is strictly increasing and   *)
(* consecutive elements differ by exactly the interval.                    *)
C4_TimeIndexSteps ==
    (Decoded /\ n_periods > 1 /\ report_interval_seconds > 0) =>
        /\ Len(time_index) = n_periods
        /\ time_index[1] = start_date
        /\ \A i \in 1 .. n_periods - 1 :
              /\ Before(time_index[i], time_index[i + 1])
              /\ DeltaBetween(time_index[i], time_index[i + 1])
                    = TimeDelta(report_interval_seconds)
        /\ \A i \in 1 .. n_periods :
              DeltaBetween(start_date, time_index[i])
                 = [days |-> TimeDeltaMul(TimeDelta(report_interval_seconds), i - 1).days,
                    seconds |-> TimeDeltaMul(TimeDelta(report_interval_seconds),
                                             i - 1).seconds]

(* three periods whose steps cross midnight *)
C4_Witness ==
    /\ Decoded
    /\ n_periods = 3
    /\ report_interval_seconds = 900
    /\ start_date = DateTime(2020, 2, 29, 23, 45, 0)
    /\ time_index[2] = DateTime(2020, 3, 1, 0, 0, 0)

(* C5: after a successful decode every kind's label sequence is as long    *)
(* as the header's count for the kind (stated as claimed, for every int32  *)
(* count)                                                                  *)
C5_LabelCount ==
    Decoded =>
        \A k \in 1 .. 4 : Len(labels[Kinds[k]]) = header[CountKey[k]]

-----------------------------------------------------------------------------
(* What the i-th object of a kind must hold, from the bytes of the kind's  *)
(* property block: the block starts where the pass stood when the block    *)
(* was read, its header is the count and the codes, and row i follows      *)
(* (i - 1) rows of one 4-byte value per code.                              *)

BlockStart(kind) == Entry("properties." \o kind).from
NProps(kind) == Max(Int32At(file, BlockStart(kind)), 0)
CodeAt(kind, j) == Int32At(file, BlockStart(kind) + 4 * j)
NameAt(kind, j) == PropertyName(CodeAt(kind, j)).v
ValueOffset(kind, i, j) ==
    BlockStart(kind) + 4 + 4 * NProps(kind) + 4 * NProps(kind) * (i - 1) + 4 * (j - 1)
LastCode(kind, name) ==
    CHOOSE j \in 1 .. NProps(kind) :
        /\ NameAt(kind, j) = name
        /\ \A j2 \in j + 1 .. NProps(kind) : NameAt(kind, j2) # name
ValueAt(kind, i, j) ==
    IF NameAt(kind, j) = "type"
    THEN StrVal(IF kind = "node" THEN NodeType(Int32At(file, ValueOffset(kind, i, j))).v
                ELSE LinkType(Int32At(file, ValueOffset(kind, i, j))).v)
    ELSE Float32At(file, ValueOffset(kind, i, j))
RowNames(kind) ==
    {NameAt(kind, j) : j \in 1 .. NProps(kind)}
        \ (IF kind = "subcatchment" THEN {"type"} ELSE {})
ExpectedRow(kind, i) ==
    [name \in RowNames(kind) |-> ValueAt(kind, i, LastCode(kind, name))]

UnitCodeAt(i) == Int32At(file, Entry("pollutant_units").from + 4 * (i - 1))
ExpectedUnit(i) == ConcentrationUnit(UnitCodeAt(i)).v

(* no later object of the kind carries the label of object i *)
LastOf(kind, i) ==
    \A j \in i + 1 .. Len(labels[kind]) : labels[kind][j] # labels[kind][i]

RowPreserved(kind, i) ==
    LET l == labels[kind][i]
    IN  /\ l \in DOMAIN properties[kind]
        /\ properties[kind][l] = ExpectedRow(kind, i)
        /\ GetObject(properties[kind], l)
              = [found |-> TRUE, v |-> ExpectedRow(kind, i) @@ ("id" :> l)]
UnitPreserved(i) ==
    LET l == labels["pollutant"][i]
    IN  l \in DOMAIN pollutant_units /\ pollutant_units[l] = ExpectedUnit(i)

(* C6 as claimed: for every kind and every index i, the lookup of          *)
(* labels[i] returns the values of the i-th row, and the unit of the i-th  *)
(* pollutant label is the i-th unit code's.                                *)
C6_OrdinalEveryIndex ==
    Decoded =>
        /\ \A k \in 1 .. 3 : \A i \in 1 .. Len(labels[ObjectKinds[k]]) :
              RowPreserved(ObjectKinds[k], i)
        /\ \A i \in 1 .. Len(labels["pollutant"]) : UnitPreserved(i)

(* C6 amended: the same for every index i whose label is not carried by a  *)
(* later object of the kind (every index when the labels are distinct).    *)
C6_OrdinalLastOccurrence ==
    Decoded =>
        /\ \A k \in 1 .. 3 : \A i \in 1 .. Len(labels[ObjectKinds[k]]) :
              LastOf(ObjectKinds[k], i) => RowPreserved(ObjectKinds[k], i)
        /\ \A i \in 1 .. Len(labels["pollutant"]) :
              LastOf("pollutant", i) => UnitPreserved(i)

(* two nodes with distinct labels and different, non-empty rows *)
C6_Witness ==
    /\ Decoded
    /\ Len(labels["node"]) = 2
    /\ labels["node"][1] # labels["node"][2]
    /\ NProps("node") = 3
    /\ ExpectedRow("node", 1) # ExpectedRow("node", 2)
    /\ properties["node"][labels["node"][1]] = ExpectedRow("node", 1)

-----------------------------------------------------------------------------
TypeNames(kind) ==
    IF kind = "node" THEN <<"JUNCTION", "OUTFALL", "STORAGE", "DIVIDER">>
    ELSE <<"CONDUIT", "PUMP", "ORIFICE", "WEIR", "OUTLET">>
SeqRange(s) == {s[i] : i \in 1 .. Len(s)}

TypeValueOk(kind, code, value) ==
    /\ value.kind = "str"
    /\ value.s \in SeqRange(TypeNames(kind)) \cup {"UNKNOWN_" \o ToString(code)}
    /\ (0 <= code /\ code < Len(TypeNames(kind))) => value.s = TypeNames(kind)[code + 1]
    /\ code >= Len(TypeNames(kind)) => value.s = "UNKNOWN_" \o ToString(code)

(* C7: in a decoded structure a node's or link's "type" is one of the      *)
(* kind's names or UNKNOWN_n for the raw code n, codes from 0 map to the   *)
(* names in table order, and every other property is the float32 read at   *)
(* its place in the row.                                                   *)
C7_PropertyValues ==
    Decoded =>
        \A k \in 1 .. 3 :
            LET kind == ObjectKinds[k]
            IN  /\ DOMAIN properties[kind] = SeqRange(labels[kind])
                /\ \A i \in 1 .. Len(labels[kind]) : LastOf(kind, i) =>
                      LET row == properties[kind][labels[kind][i]]
                      IN  \A name \in DOMAIN row :
                            /\ name \in RowNames(kind)
                            /\ IF name = "type"
                               THEN /\ kind \in {"node", "link"}
                                    /\ TypeValueOk(kind,
                                          Int32At(file, ValueOffset(kind, i,
                                                            LastCode(kind, name))),
                                          row[name])
                               ELSE /\ row[name].kind = "float"
                                    /\ row[name] = Float32At(file,
                                          ValueOffset(kind, i, LastCode(kind, name)))

(* a node of unknown type 7 beside a link of type OUTLET, with floats *)
C7_Witness ==
    /\ Decoded
    /\ \E l \in DOMAIN properties["node"] :
          /\ DOMAIN properties["node"][l] = {"type", "invert", "max_depth"}
          /\ properties["node"][l]["type"] = StrVal("UNKNOWN_7")
          /\ properties["node"][l]["invert"] = FloatVal(0, 127, 0)
    /\ \E l \in DOMAIN properties["link"] :
          /\ "type" \in DOMAIN properties["link"][l]
          /\ properties["link"][l]["type"] = StrVal("CONDUIT")

(* C8 as claimed: a code outside its table's range, too large or           *)
(* negative, resolves to the table's placeholder, never to a name of the   *)
(* table and never to an exception.                                        *)
C8_OutOfRangePlaceholder ==
    /\ exc # "IndexError"
    /\ DOMAIN header # {} =>
          (header.flow_unit_code \notin 0 .. 5 => header.flow_unit = "UNKNOWN")
    /\ Decoded =>
          /\ \A i \in 1 .. Len(labels["pollutant"]) :
                (LastOf("pollutant", i) /\ UnitCodeAt(i) \notin 0 .. 2) =>
                    pollutant_units[labels["pollutant"][i]] = "UNKNOWN"
          /\ \A k \in 2 .. 3 : \A i \in 1 .. Len(labels[ObjectKinds[k]]) :
                LET kind == ObjectKinds[k]
                    row == properties[kind][labels[kind][i]]
                IN  (LastOf(kind, i) /\ "type" \in DOMAIN row) =>
                      LET code == Int32At(file, ValueOffset(kind, i,
                                                   LastCode(kind, "type")))
                      IN  code \notin 0 .. Len(TypeNames(kind)) - 1 =>
                             row["type"].s = "UNKNOWN_" \o ToString(code)

(* C9: the period count is the int32 at end-of-file - 12, the 4th of the   *)
(* six integers in the last 24 bytes, wherever the forward pass stopped.   *)
C9_PeriodCountFromFooter ==
    footer # <<>> =>
        /\ Len(file) >= 24
        /\ footer = [i \in 1 .. 6 |-> Int32At(file, Len(file) - 24 + 4 * (i - 1))]
        /\ n_periods = Int32At(file, Len(file) - 12)

(* per-step words lie between the report interval and the footer *)
C9_Witness ==
    /\ Decoded
    /\ n_periods = 3
    /\ Entry("end").from < Entry("end").to
    /\ Entry("end").to = Len(file) - 24

(* C10: end_date is start_date + interval * (n_periods - 1), the last      *)
(* element of time_index, when n_periods > 0, and start_date otherwise.    *)
C10_EndDate ==
    (Decoded /\ ret.op = "end_date") =>
        /\ ret.ok
        /\ IF n_periods > 0
           THEN /\ ret.v = time_index[n_periods]
                /\ LET d == TimeDeltaMul(TimeDelta(report_interval_seconds),
                                         n_periods - 1)
                   IN  DeltaBetween(start_date, ret.v)
                          = [days |-> d.days, seconds |-> d.seconds]
           ELSE ret.v = start_date

(* footer period count 17, start 2020-01-01T00:00, interval 900 s *)
C10_Witness ==
    /\ Decoded
    /\ ret.op = "end_date"
    /\ n_periods = 17
    /\ start_date = DateTime(2020, 1, 1, 0, 0, 0)
    /\ report_interval_seconds = 900
    /\ time_index[17] = DateTime(2020, 1, 1, 4, 0, 0)
    /\ ret.v = DateTime(2020, 1, 1, 4, 0, 0)

-----------------------------------------------------------------------------
(* The decimal fields of a version number, found by search: the patch is   *)
(* the p in 0..99 with v - p a multiple of 100, the minor the m in 0..99   *)
(* with v - p - 100 m a multiple of 10000, the major the exact quotient    *)
(* left.                                                                   *)
PatchOf(v) == CHOOSE p \in 0 .. 99 : (v - p) % 100 = 0
MinorOf(v) == CHOOSE m \in 0 .. 99 : (v - PatchOf(v) - 100 * m) % 10000 = 0
MajorOf(v) == (v - PatchOf(v) - 100 * MinorOf(v)) \div 10000

(* C11: the version string of a parsed header is "major.minor.patch" for   *)
(* the decomposition v = major * 10000 + minor * 100 + patch with          *)
(* 0 <= minor, patch < 100, each field in decimal; 50200 gives "5.2.0"     *)
(* and 50100 gives "5.1.0"; the facade's version returns that string.      *)
C11_VersionString ==
    DOMAIN header # {} =>
        /\ header.version = Int32At(file, 4)
        /\ header.version
              = MajorOf(header.version) * 10000 + MinorOf(header.version) * 100
                + PatchOf(header.version)
        /\ header.version_str
              = ToString(MajorOf(header.version)) \o "."
                \o ToString(MinorOf(header.version)) \o "."
                \o ToString(PatchOf(header.version))
        /\ header.version = 50200 => header.version_str = "5.2.0"
        /\ header.version = 50100 => header.version_str = "5.1.0"
        /\ header.version = -9797 => header.version_str = "-1.2.3"
        /\ (Decoded /\ ret.op = "version") => ret.v = header.version_str

(* version 51015, two-digit minor and patch, read through the facade *)
C11_Witness ==
    /\ Decoded
    /\ header.version = 51015
    /\ ret.op = "version"
    /\ ret.v = "5.10.15"

-----------------------------------------------------------------------------
(* Where the i-th label of a kind starts, by the layout rule alone: the    *)
(* first at the cursor of the kind's label read, each next one 4 bytes     *)
(* further plus the prefix when it is positive and its bytes are present.  *)
LabelsFrom(kind) == Entry("labels." \o kind).from

RECURSIVE LabelStart(_, _)
LabelStart(kind, i) ==
    IF i = 1 THEN LabelsFrom(kind)
    ELSE LET s == LabelStart(kind, i - 1)
             n == Int32At(file, s)
         IN  IF n > 0 /\ n <= Len(file) - s - 4 THEN s + 4 + n ELSE s + 4

LabelPrefix(kind, i) == Int32At(file, LabelStart(kind, i))
(* the prefix of label i is in the file, and so are the bytes it announces *)
LabelWhole(kind, i) ==
    /\ LabelStart(kind, i) + 4 <= Len(file)
    /\ LabelPrefix(kind, i) <= Len(file) - LabelStart(kind, i) - 4
LabelData(kind, i) ==
    SubSeq(file, LabelStart(kind, i) + 5, LabelStart(kind, i) + 4 + LabelPrefix(kind, i))

(* l is b without its trailing NUL bytes *)
StrippedOf(l, b) ==
    /\ Len(l) <= Len(b)
    /\ l = SubSeq(b, 1, Len(l))
    /\ \A j \in Len(l) + 1 .. Len(b) : b[j] = 0
    /\ l = <<>> \/ l[Len(l)] # 0

(* C12: for a label whose prefix N and announced bytes are in the file:    *)
(* N <= 0 gives the empty string and a cursor 4 bytes further; N > 0 gives *)
(* a cursor 4 + N bytes further and the N bytes without their trailing     *)
(* NULs (ASCII bytes as they are; the bytes 4A FF as "J" and U+FFFD).      *)
C12_LabelPrefix ==
    \A k \in 1 .. 4 :
        LET kind == Kinds[k]
        IN  kind \in DOMAIN labels =>
              \A i \in 1 .. Len(labels[kind]) :
                 (\A j \in 1 .. i : LabelWhole(kind, j)) =>
                    LET s == LabelStart(kind, i)
                        n == LabelPrefix(kind, i)
                        r == ReadString(file, s)
                        e == IF i = Len(labels[kind])
                             THEN Entry("labels." \o kind).to
                             ELSE LabelStart(kind, i + 1)
                    IN  /\ r.v = labels[kind][i]
                        /\ r.pos = e
                        /\ n <= 0 => (labels[kind][i] = <<>> /\ e = s + 4)
                        /\ n > 0 =>
                              /\ e = s + 4 + n
                              /\ (\A j \in 1 .. n : LabelData(kind, i)[j] < 128) =>
                                    StrippedOf(labels[kind][i], LabelData(kind, i))
                              /\ LabelData(kind, i) = <<74, 255>> =>
                                    labels[kind][i] = <<74, 65533>>

(* an empty label of prefix 0 before "J1" stored as 4A 31 00 00 *)
C12_Witness ==
    /\ Decoded
    /\ labels["node"] = <<<<>>, <<74, 49>>>>
    /\ LabelPrefix("node", 1) = 0
    /\ LabelPrefix("node", 2) = 4
    /\ LabelData("node", 2) = <<74, 49, 0, 0>>
    /\ Entry("labels.node").to = Entry("labels.node").from + 12

-----------------------------------------------------------------------------
(* The four bytes of an int32 and of a float32, little-endian, written     *)
(* from the value: two's complement, and sign, exponent and fraction.      *)
Int32Bytes(v) == LE32(v)
Float32Bytes(x) ==
    LET low == LE32Nat(x.exp * 8388608 + x.mant)
    IN  <<low[1], low[2], low[3], low[4] + 128 * x.sign>>

PrimitiveReadOk(f, p) ==
    LET i == _read_int(f, p)
        x == _read_float(f, p)
    IN  IF Len(f) - p < 4
        THEN /\ i.v = 0 /\ i.pos = Len(f)
             /\ x.v = [kind |-> "float", sign |-> 0, exp |-> 0, mant |-> 0]
             /\ x.pos = Len(f)
        ELSE /\ Int32Bytes(i.v) = SubSeq(f, p + 1, p + 4) /\ i.pos = p + 4
             /\ Float32Bytes(x.v) = SubSeq(f, p + 1, p + 4) /\ x.pos = p + 4

SingleReads == <<"magic_start", "version", "flow_unit_code", "n_subcatchments",
                 "n_nodes", "n_links", "n_pollutants", "report_interval">>

(* C13: an int32 or float32 read with fewer than 4 bytes left returns 0    *)
(* (0.0) and leaves the cursor at end-of-file; with 4 bytes or more left   *)
(* it returns the little-endian value of the next 4 bytes and the cursor   *)
(* moves by 4.  Stated for a read at every offset of every opened file,    *)
(* at the cursor of every state, and for every single read of the log.     *)
C13_PrimitiveReads ==
    /\ pos <= Len(file) /\ PrimitiveReadOk(file, pos)
    /\ pc = At("header") => \A p \in 0 .. Len(file) : PrimitiveReadOk(file, p)
    /\ \A n \in 1 .. Len(log) :
          (log[n].op = "read" /\ \E j \in 1 .. Len(SingleReads) : log[n].what = SingleReads[j]) =>
             /\ log[n].to = Min(log[n].from + 4, Len(file))
             /\ _read_int(file, log[n].from).pos = log[n].to
    /\ DOMAIN header # {} =>
          \A j \in 2 .. 7 :
             LET e == Entry(SingleReads[j])
             IN  IF Len(file) - e.from < 4
                 THEN header[SingleReads[j]] = 0
                 ELSE Int32Bytes(header[SingleReads[j]])
                         = SubSeq(file, e.from + 1, e.from + 4)

(* a 10-byte file: the flow-unit code is read with 2 bytes left *)
C13_Witness ==
    /\ Len(file) = 10
    /\ DOMAIN header # {}
    /\ Entry("flow_unit_code").from = 8
    /\ Entry("flow_unit_code").to = 10
    /\ file[9] # 0
    /\ header.flow_unit_code = 0
    /\ header.version = 50200

-----------------------------------------------------------------------------
(* A calendar timestamp: year 1..9999, month 1..12, a day the month has    *)
(* (February has 29 days in years divisible by 400, or by 4 and not 100),  *)
(* hour 0..23, minute 0..59.                                               *)
MonthLengths == <<31, 28, 31, 30, 31, 30, 31, 31, 30, 31, 30, 31>>
CalendarOk(y, mo, d, h, mi) ==
    /\ y \in 1 .. 9999
    /\ mo \in 1 .. 12
    /\ d >= 1
    /\ d <= MonthLengths[mo]
          + (IF mo = 2 /\ (y % 400 = 0 \/ (y % 4 = 0 /\ y % 100 # 0)) THEN 1 ELSE 0)
    /\ h \in 0 .. 23
    /\ mi \in 0 .. 59

StartField(i) == Int32At(file, Entry("start_date").from + 4 * (i - 1))

(* C14: reading the start date issues five int32 reads (20 bytes, fewer    *)
(* at end-of-file) and does not raise; five values that form a calendar    *)
(* timestamp give exactly that timestamp, any other five give              *)
(* 2000-01-01 00:00.                                                       *)
C14_StartDate ==
    /\ pc = At("start") => exc = "none"
    /\ pc.at \in {"footer", "index", "done"} \/ (pc.at = "raised" /\ footer # <<>>)
          \/ exc = "OSError" =>
          LET e == Entry("start_date")
          IN  /\ e.to = Min(e.from + 20, Len(file))
              /\ _read_datetime(file, e.from).v = start_date
              /\ IF CalendarOk(StartField(1), StartField(2), StartField(3),
                               StartField(4), StartField(5))
                 THEN start_date = [year |-> StartField(1), month |-> StartField(2),
                                    day |-> StartField(3), hour |-> StartField(4),
                                    minute |-> StartField(5), second |-> 0]
                 ELSE start_date = [year |-> 2000, month |-> 1, day |-> 1,
                                    hour |-> 0, minute |-> 0, second |-> 0]
    /\ (exc # "none" /\ "start_date" \in {log[n].what : n \in 1 .. Len(log)}) =>
          exc \in {"OSError", "OverflowError"}

(* 29 February of a century year that is no leap year falls back *)
C14_Witness ==
    /\ Decoded
    /\ StartField(1) = 1900 /\ StartField(2) = 2 /\ StartField(3) = 29
    /\ Entry("start_date").to = Entry("start_date").from + 20
    /\ start_date = [year |-> 2000, month |-> 1, day |-> 1,
                      hour |-> 0, minute |-> 0, second |-> 0]

-----------------------------------------------------------------------------
GetOps == {"get_subcatchment", "get_node", "get_link"}
KindOfGet(op) == CHOOSE kind \in SeqRange(ObjectKinds) : op = "get_" \o kind

(* C15: get_node, get_link and get_subcatchment return the not-found       *)
(* indicator exactly when the identifier is no label of the kind; for a    *)
(* label of the kind they return a mapping whose "id" is the identifier    *)
(* and whose other entries are exactly the decoded properties of it.       *)
C15_Lookup ==
    (Decoded /\ ret.op \in GetOps) =>
        LET kind == KindOfGet(ret.op)
            x == ret.arg
        IN  /\ ~ret.ok <=> x \notin SeqRange(labels[kind])
            /\ ret.ok =>
                  /\ DOMAIN ret.v = DOMAIN properties[kind][x] \cup {"id"}
                  /\ ret.v["id"] = x
                  /\ \A name \in DOMAIN properties[kind][x] :
                        ret.v[name] = properties[kind][x][name]

(* nodes "J1", "J2" with type codes 0, 1: the lookup of "J2" is an OUTFALL, *)
(* and "J2" is no link                                                     *)
C15_Witness ==
    /\ Decoded
    /\ labels["node"] = <<<<74, 49>>, <<74, 50>>>>
    /\ "type" \in DOMAIN properties["node"][<<74, 49>>]
    /\ properties["node"][<<74, 49>>]["type"] = StrVal("JUNCTION")
    /\ ret.op = "get_node"
    /\ ret.arg = <<74, 50>>
    /\ ret.ok
    /\ ret.v["type"] = StrVal("OUTFALL")
    /\ ret.v["id"] = <<74, 50>>
    /\ GetObject(properties["link"], <<74, 50>>).found = FALSE

-----------------------------------------------------------------------------
(* C16: every step taken on a decoded structure (a property accessor,      *)
(* end_date, get_node, get_link, get_subcatchment, summary) leaves header, *)
(* labels, units, properties, variables, start date, interval, footer,     *)
(* period count and time index as they were, and a call repeated with the  *)
(* same argument returns an equal result; no call other than a lookup of  *)
(* an absent identifier fails.                                             *)
C16_FacadeReadOnly ==
    [][Decoded =>
          /\ decoded_vars' = decoded_vars
          /\ file' = file /\ pc' = pc /\ exc' = exc
          /\ ret'.op \notin GetOps => ret'.ok
          /\ (ret.op = ret'.op /\ ret.arg = ret'.arg) => ret' = ret]_vars

(* the summary of seventeen quarter-hour periods, asked after a lookup *)
C16_Witness ==
    /\ Decoded
    /\ ret.op = "summary"
    /\ ret.v.version = "5.2.0"
    /\ ret.v.start_date = "2020-01-01T00:00:00"
    /\ ret.v.end_date = "2020-01-01T04:00:00"
    /\ ret.v.duration = "4:00:00"
    /\ ret.v.report_interval = "0:15:00"
    /\ ret.v.n_periods = 17
    /\ time_index[17] = DateTime(2020, 1, 1, 4, 0, 0)

-----------------------------------------------------------------------------
(* C17: at most one handle is open at any time; it is open from the open   *)
(* call until decode_file leaves, and closed once decode_file has returned *)
(* the structure or raised, whatever the exception.                        *)
C17_HandleReleased ==
    /\ open_handles \in {0, 1}
    /\ pc.at \in {"done", "raised"} => open_handles = 0
    /\ exc # "none" => (pc = At("raised") /\ open_handles = 0)
    /\ pc.at \notin {"open", "done", "raised"} => open_handles = 1

(* a failure late in the decode: the time index overflows after the whole  *)
(* file has been read                                                      *)
C17_Witness ==
    /\ pc = At("raised")
    /\ exc = "OverflowError"
    /\ footer # <<>>
    /\ open_handles = 0

-----------------------------------------------------------------------------
(* Reading an export back: the labels, counts, units and properties that   *)
(* the written files hold.  A table that was not written reads as empty.   *)
EncoderOps == {"encode_to_file", "encode_to_json", "encode_to_parquet"}
Exported == Decoded /\ ret.op \in EncoderOps /\ ret.ok

IsJson(r) == r.files[1].format = "json"
Named(r, name) == {n \in 1 .. Len(r.files) : r.files[n].name = name}
DocNamed(r, name) == r.files[CHOOSE n \in Named(r, name) : TRUE].doc
SummaryDoc(r) ==
    IF Named(r, "summary.parquet") # {} THEN DocNamed(r, "summary.parquet")
    ELSE r.files[1].doc
SummaryValue(r, field) ==
    SummaryDoc(r)[CHOOSE i \in 1 .. Len(SummaryDoc(r)) : SummaryDoc(r)[i].field = field].value

RowWithoutId(row) == [name \in DOMAIN row \ {"id"} |-> row[name]]
TableLabels(rows) == [i \in 1 .. Len(rows) |-> rows[i]["id"]]
TableProperties(rows) ==
    [l \in {rows[i]["id"] : i \in 1 .. Len(rows)} |->
        RowWithoutId(rows[CHOOSE i \in 1 .. Len(rows) : rows[i]["id"] = l])]

ExportedLabels(r, kind) ==
    IF IsJson(r) THEN r.files[1].doc.metadata.labels[kind]
    ELSE IF Named(r, TableName(kind)) # {}
         THEN TableLabels(DocNamed(r, TableName(kind)))
    ELSE <<>>
ExportedProperties(r, kind) ==
    IF IsJson(r) THEN r.files[1].doc.metadata.properties[kind]
    ELSE IF Named(r, TableName(kind)) # {}
         THEN TableProperties(DocNamed(r, TableName(kind)))
    ELSE EmptyDict
ExportedPollutantUnits(r) ==
    IF IsJson(r) THEN r.files[1].doc.metadata.pollutant_units ELSE EmptyDict
CountsHeld(r) ==
    \A k \in 1 .. 4 :
        IF IsJson(r) THEN r.files[1].doc.header[CountKey[k]] = header[CountKey[k]]
        ELSE SummaryValue(r, CountKey[k]) = ToString(header[CountKey[k]])
PollutantLabelsHeld(r) ==
    IF IsJson(r) THEN r.files[1].doc.metadata.labels["pollutant"] = labels["pollutant"]
    ELSE SummaryValue(r, "pollutants") = JoinLabels(labels["pollutant"])
FlowUnitHeld(r) ==
    IF IsJson(r) THEN r.files[1].doc.header.flow_unit = header.flow_unit
    ELSE SummaryValue(r, "flow_unit") = header.flow_unit

IsDirectory(r) == \E n \in 1 .. Len(r.files) : r.files[n].name # ""

(* C18 as claimed: whatever exporter wrote it (JSON, one tabular file, a   *)
(* directory of tabular files), the export holds the labels, the counts,   *)
(* the units and every object's properties as they were decoded.           *)
C18_ExportRoundTrip ==
    Exported =>
        /\ CountsHeld(ret)
        /\ FlowUnitHeld(ret)
        /\ PollutantLabelsHeld(ret)
        /\ \A k \in 1 .. 3 : ExportedLabels(ret, ObjectKinds[k]) = labels[ObjectKinds[k]]
        /\ ExportedPollutantUnits(ret) = pollutant_units
        /\ \A k \in 1 .. 3 :
              ExportedProperties(ret, ObjectKinds[k]) = properties[ObjectKinds[k]]

-----------------------------------------------------------------------------
(* the names the property codes of a kind's block header resolve to *)
BlockNames(kind) == {NameAt(kind, j) : j \in 1 .. NProps(kind)}

(* C19 as claimed: for subcatchments, nodes and links alike, every decoded *)
(* object's property mapping has exactly the names of the block's property *)
(* codes as its keys, "type" among them when code 0 is listed.             *)
C19_KeysAreBlockNames ==
    Decoded =>
        \A k \in 1 .. 3 :
            \A l \in DOMAIN properties[ObjectKinds[k]] :
                DOMAIN properties[ObjectKinds[k]][l] = BlockNames(ObjectKinds[k])

-----------------------------------------------------------------------------
(* What a call of encode_to_file did, told from its outcome alone.         *)
WroteJson(r) ==
    /\ r.ok
    /\ Len(r.files) = 1
    /\ r.files[1].format = "json"
    /\ r.files[1].path = r.arg[1] /\ r.files[1].name = ""
    /\ DOMAIN r.files[1].doc = {"header", "metadata", "summary"}
(* the tabular exporter ran: it wrote the one table, or failed on a        *)
(* missing library before writing                                          *)
RanTabular(r) ==
    IF r.arg[3]
    THEN /\ r.ok
         /\ Len(r.files) = 1
         /\ r.files[1].format = "parquet"
         /\ r.files[1].path = r.arg[1] /\ r.files[1].name = ""
    ELSE r.v = "ImportError" /\ r.files = <<>> /\ r.dirs = {}
RaisedValueError(r) == ~r.ok /\ r.v = "ValueError" /\ r.files = <<>> /\ r.dirs = {}

-----------------------------------------------------------------------------
(* C21: every encode_to_json call, on a SwmmOutput or on the decoded        *)
(* dictionary, returns having written one JSON object that has the keys    *)
(* "header" and "metadata" and does not have the key "summary".             *)
C21_JsonWithoutSummary ==
    (Decoded /\ ret.op = "encode_to_json") =>
        /\ ret.ok
        /\ Len(ret.files) = 1
        /\ {"header", "metadata"} \subseteq DOMAIN ret.files[1].doc
        /\ "summary" \notin DOMAIN ret.files[1].doc

-----------------------------------------------------------------------------
(* What the three reads of a section return in a state, without the       *)
(* getter's side effect.                                                   *)
AssignStep(key) == ret'.op = "set" /\ ret'.key = key /\ calls' = calls + 1
(* to_dict()[key] *)
DictRead(key) ==
    IF key \in DOMAIN Copy(_data) THEN Copy(_data)[key] ELSE [t |-> "KeyError"]
(* what title returns for a stored value v *)
TitleOf(v) ==
    IF v.t = "str" THEN v
    ELSE IF /\ IsRef(v)
            /\ heap[v.r].t = "list"
            /\ heap[v.r].items # <<>>
            /\ heap[v.r].items[1].v.t = "row"
    THEN heap[v.r].items[1].v.value
    ELSE Str("")
OthersKept(key) ==
    /\ DOMAIN _data' = DOMAIN _data \cup {key}
    /\ \A k \in DOMAIN _data \ {key} : _data'[k] = _data[k]
    /\ \A r \in 1 .. Len(heap) : heap'[r] = heap[r]
    /\ model_dict' = model_dict

(* C22 as stated: after any assignment of v to a section, the typed       *)
(* property (when the section has one), inp[key] and to_dict()[key] all   *)
(* return v, and every other section and every object is as before.       *)
C22_AssignReplaces ==
    [][\A key \in ExploredSections :
          AssignStep(key) =>
             /\ __contains__(key)'
             /\ __getitem__(key)' = ret'.v
             /\ DictRead(key)' = ret'.v
             /\ key \in TypedSections => Getter(key)'.v = ret'.v
             /\ OthersKept(key)]_vars

(* C22 amended: the same, except that the typed property title returns v  *)
(* only when v is a string; a list whose first element is a mapping with   *)
(* "value" reads as that value, any other title as the empty string.       *)
C22_AssignReplacesAmended ==
    [][\A key \in ExploredSections :
          AssignStep(key) =>
             /\ __contains__(key)'
             /\ __getitem__(key)' = ret'.v
             /\ DictRead(key)' = ret'.v
             /\ (key \in TypedSections \ {"title"}) => Getter(key)'.v = ret'.v
             /\ key = "title" => \E v \in {_data'[key]} :
                                    /\ v = ret'.v
                                    /\ title' = TitleOf(v)'
             /\ OthersKept(key)]_vars

(* options loaded with FLOW_UNITS, then assigned a new dict: the section  *)
(* refers to the new dict, which has START_DATE only, and the title        *)
(* loaded is still there                                                   *)
C22_Witness ==
    /\ ret.op = "set"
    /\ ret.key = "options"
    /\ opens # <<>>
    /\ heap[1] = DictObj(<<Entry_("FLOW_UNITS", Str("CFS"))>>)
    /\ ret.v = Ref(2)
    /\ _data["options"] = Ref(2)
    /\ heap[2] = DictObj(<<Entry_("START_DATE", Str("01/01/2020"))>>)
    /\ _data["title"] = Str("Loaded")

-----------------------------------------------------------------------------
(* A call made on the SwmmInput, named by what it left in ret. *)
CallStep(op) == ret'.op = op /\ calls' = calls + 1
InitStep == inp_pc = "new" /\ inp_pc' # "new"
Listed == {it[1] : it \in items}
Listings ==
    /\ Listed = keys
    /\ \A k \in ExploredSections \cup {"outfalls"} : __contains__(k) <=> k \in keys
(* the sections a step assigns: the one a setter or inp[key] = v names,    *)
(* those of the file a construction loads                                  *)
AssignedBy ==
    IF CallStep("set") THEN {ret'.key}
    ELSE IF InitStep /\ opens' # <<>> THEN keys'
    ELSE {}

(* C23 as stated: keys(), items() and `in` report exactly the sections     *)
(* that have been assigned: none is listed before a construction, every    *)
(* step lists what it assigns on top of what was listed, and nothing else. *)
C23_ListsAssigned ==
    /\ [](inp_pc = "new" => keys = {})
    /\ [](Listings)
    /\ [][keys' = keys \cup AssignedBy]_vars

(* the section a step creates by reading it: a typed property other than  *)
(* title, read while absent                                                *)
CreatedByRead ==
    IF CallStep("get") /\ ret'.key \in TypedSections \ {"title"} THEN {ret'.key} ELSE {}
EmptyDefault(key, v) ==
    IF key \in StrSections THEN v = Str("")
    ELSE /\ IsRef(v)
         /\ v.r = Len(heap) + 1
         /\ heap'[v.r].t = (IF key \in DictSections THEN "dict" ELSE "list")
         /\ heap'[v.r].items = <<>>

(* C23 amended: keys(), items() and `in` report exactly the sections that *)
(* have been assigned or that have been read through a typed property      *)
(* other than title; a section read while absent holds the property's      *)
(* empty default, and a read of title or of inp[key] lists nothing.        *)
C23_ListsAssignedOrRead ==
    /\ [](inp_pc = "new" => keys = {})
    /\ [](Listings)
    /\ [][/\ keys' = keys \cup AssignedBy \cup CreatedByRead
          /\ \A key \in CreatedByRead \ keys :
                /\ EmptyDefault(key, _data'[key])
                /\ ret'.v = _data'[key]]_vars

(* junctions read on a new model that nothing was assigned to: listed,    *)
(* holding an empty list                                                   *)
C23_Witness ==
    /\ ret = [op |-> "get", key |-> "junctions", v |-> Ref(1)]
    /\ calls = 1
    /\ opens = <<>>
    /\ keys = {"junctions"}
    /\ __contains__("junctions")
    /\ items = {<<"junctions", Ref(1)>>}
    /\ heap = <<ListObj(<<>>)>>

-----------------------------------------------------------------------------
(* the change a caller makes to a list or dict: "J2" appended, or the key  *)
(* "INFILTRATION" set to "HORTON"                                          *)
Changed(obj) ==
    \E i \in 1 .. Len(obj.items) :
        obj.items[i] = (IF obj.t = "list" THEN Entry_("", Str("J2"))
                        ELSE Entry_("INFILTRATION", Str("HORTON")))
(* a read of the typed property returns an object containing the change *)
ReadHasChange(name) ==
    LET g == Getter(name) IN IsRef(g.v) /\ Changed(g.heap[g.v.r])

(* C24: a mutation made through the object a typed getter returned is      *)
(* persistent, also when the section had never been assigned: right after  *)
(* it a read of the same property returns the same object, containing the  *)
(* change, and so does every later read until the section is assigned.     *)
C24_MutationPersists ==
    /\ [](ret.op = "mutate" =>
             /\ Getter(ret.key).v = ret.v
             /\ ReadHasChange(ret.key))
    /\ [][\A name \in ExploredTyped \ {"title"} :
             (ReadHasChange(name) /\ ~(CallStep("set") /\ ret'.key = name))
                 => ReadHasChange(name)']_vars

(* inp.options["INFILTRATION"] = "HORTON" as the first use of a new model *)
C24_Witness ==
    /\ ret = [op |-> "mutate", key |-> "options", v |-> Ref(1)]
    /\ calls = 2
    /\ opens = <<>>
    /\ _data = [k \in {"options"} |-> Ref(1)]
    /\ heap = <<DictObj(<<Entry_("INFILTRATION", Str("HORTON"))>>)>>
    /\ Getter("options").v = Ref(1)

-----------------------------------------------------------------------------
(* everything a caller can read through the SwmmInput: the listings, the   *)
(* title, inp[key], the typed properties and the objects they refer to     *)
Reads ==
    [keys |-> keys, items |-> items, title |-> title,
     get |-> [k \in ExploredSections |-> __getitem__(k)],
     prop |-> [k \in ExploredTyped |-> Getter(k).v],
     objects |-> heap]
(* to_dict() returns a dictionary with the model's sections and values *)
Returned ==
    CallStep("to_dict") =>
        /\ model_dict'.made
        /\ DOMAIN model_dict'.d = keys
        /\ \A k \in keys : model_dict'.d[k] = __getitem__(k)
        /\ Reads' = Reads

(* C25 as stated: no modification of the dictionary to_dict() returned,   *)
(* of its keys or inside its values, changes what the SwmmInput reads.     *)
C25_DictIsolated ==
    [][/\ Returned
       /\ (CallStep("dict_setitem") \/ CallStep("dict_delitem")
              \/ CallStep("dict_mutate_value")) => Reads' = Reads]_vars

(* the model's sections that hold the object the caller changed *)
Sharing(key) == {k \in keys : _data[k] = model_dict.d[key]}

(* C25 amended: assigning or deleting keys of the returned dictionary     *)
(* changes no read of the SwmmInput; the values are the model's own        *)
(* objects, so a change inside a list or dict taken from the dictionary    *)
(* is read through every section of the model that holds that object.      *)
C25_DictIsolatedAtTopLevel ==
    [][/\ Returned
       /\ (CallStep("dict_setitem") \/ CallStep("dict_delitem")) => Reads' = Reads
       /\ CallStep("dict_mutate_value") =>
             /\ keys' = keys
             /\ \A k \in keys : __getitem__(k)' = __getitem__(k)
             /\ \A k \in Sharing(ret'.key) :
                   /\ heap'[_data[k].r] = Mutated(heap[_data[k].r])
                   /\ Changed(heap'[_data[k].r])
                   /\ k \in TypedSections \ {"title"} => ReadHasChange(k)']_vars

(* model_dict["title"] = "Modified" after inp.title = "Test" *)
C25_Witness ==
    /\ ret = [op |-> "dict_setitem", key |-> "title"]
    /\ __contains__("title")
    /\ model_dict.d["title"] = Str("Modified")
    /\ _data["title"] = Str("Test")
    /\ title = Str("Test")
    /\ __getitem__("title") = Str("Test")

-----------------------------------------------------------------------------
(* the spellings of the supported suffixes among the paths asked for *)
SupportedSpellings == {".inp", ".INP", ".Inp", ".json", ".JSON", ".parquet", ".PARQUET"}
Constructed(filepath) == ret.op = "init" /\ ret.arg = filepath

-----------------------------------------------------------------------------
(* The calls a decode makes on the file handle, in the order of the code:  *)
(* what is sought or read, and whether it is a seek.                       *)
CallOrder ==
    <<"start", "magic_start", "version", "flow_unit_code", "n_subcatchments",
      "n_nodes", "n_links", "n_pollutants", "labels.subcatchment", "labels.node",
      "labels.link", "labels.pollutant", "pollutant_units",
      "properties.subcatchment", "properties.node", "properties.link", "variables",
      "start_date", "report_interval", "end", "footer">>
SeekCalls == {1, 20}

(* C27: the calls on the file handle are, in every decode, a prefix of one *)
(* fixed sequence (all of it when the decode returns): seek to 0; the      *)
(* sentinel, version, flow-unit code, four counts, four label sequences,   *)
(* pollutant units, three property blocks, variable counts, start date     *)
(* and report interval, each read starting where the one before ended and  *)
(* never moving back; one seek to end-of-file minus 24; the footer read    *)
(* from there.  The time index exists only after the footer was read.      *)
C27_ReadOrder ==
    /\ Len(log) <= Len(CallOrder)
    /\ \A i \in 1 .. Len(log) :
          /\ log[i].what = CallOrder[i]
          /\ log[i].op = (IF i \in SeekCalls THEN "seek" ELSE "read")
          /\ log[i].op = "read" =>
                /\ log[i].from = log[i - 1].to
                /\ log[i].from <= log[i].to
                /\ log[i].to <= Len(file)
    /\ Len(log) >= 1 => log[1].to = 0
    /\ Len(log) >= 20 =>
          /\ log[20].from = log[19].to
          /\ log[20].to = Len(file) - 24
    /\ Len(log) = 21 => log[21].to = Len(file)
    /\ pc.at \in {"index", "done"} => Len(log) = 21
    /\ pc.at = "footer" => Len(log) = 19
    /\ Len(log) < 21 => time_index = <<>> /\ footer = <<>>
    /\ pc.at # "done" => time_index = <<>>

(* a returned decode with labels, units and rows read, whose footer seek  *)
(* jumps forward over the bytes between the report interval and the        *)
(* footer                                                                  *)
C27_Witness ==
    /\ Decoded
    /\ Len(log) = 21
    /\ \A i \in {10, 13, 15} : log[i].from < log[i].to
    /\ log[19].to < log[20].to
    /\ time_index # <<>>

-----------------------------------------------------------------------------
(* The layout of the metadata, from the bytes of the file alone: where     *)
(* each region ends when counts, label lengths and property counts are     *)
(* taken from the places the layout gives them.  Beyond stands for a       *)
(* region that does not fit in the file or has a negative size.            *)
Beyond(f) == Len(f) + 1
HeaderCount(f, k) == Int32At(f, 8 + 4 * k)

(* end of n labels that start at s: each is a 4-byte length and its bytes *)
RECURSIVE LayoutLabels(_, _, _)
LayoutLabels(f, s, n) ==
    IF n <= 0 \/ s > Len(f) THEN s
    ELSE IF s + 4 > Len(f) \/ Int32At(f, s) < 0 \/ Int32At(f, s) > Len(f) - s - 4
    THEN Beyond(f)
    ELSE LayoutLabels(f, s + 4 + Int32At(f, s), n - 1)

RECURSIVE LabelsEnd(_, _)
LabelsEnd(f, k) ==
    IF k = 0 THEN 28 ELSE LayoutLabels(f, LabelsEnd(f, k - 1), HeaderCount(f, k))

UnitsEnd(f) ==
    IF HeaderCount(f, 4) > Len(f) THEN Beyond(f)
    ELSE LabelsEnd(f, 4) + 4 * HeaderCount(f, 4)

(* end of a block that starts at s: the property count P, P codes, and    *)
(* for each of the kind's objects P values of 4 bytes                      *)
LayoutBlock(f, s, count) ==
    IF s + 4 > Len(f) \/ Int32At(f, s) < 0 \/ Int32At(f, s) > Len(f) \/ count > Len(f)
    THEN Beyond(f)
    ELSE s + 4 + 4 * Int32At(f, s) + 4 * count * Int32At(f, s)

RECURSIVE BlocksEnd(_, _)
BlocksEnd(f, k) ==
    IF k = 0 THEN UnitsEnd(f) ELSE LayoutBlock(f, BlocksEnd(f, k - 1), HeaderCount(f, k))

CursorBeforeFooter(f) == BlocksEnd(f, 3) + 16 + 20 + 4

WellFormed(f) ==
    /\ \A k \in 1 .. 4 : HeaderCount(f, k) >= 0
    /\ CursorBeforeFooter(f) <= Len(f)

(* where the layout says the i-th call of CallOrder ends, for the calls   *)
(* after the header                                                        *)
LayoutEnd(f, i) ==
    IF i \in 9 .. 12 THEN LabelsEnd(f, i - 8)
    ELSE IF i = 13 THEN UnitsEnd(f)
    ELSE IF i \in 14 .. 16 THEN BlocksEnd(f, i - 13)
    ELSE IF i = 17 THEN BlocksEnd(f, 3) + 16
    ELSE IF i = 18 THEN BlocksEnd(f, 3) + 16 + 20
    ELSE CursorBeforeFooter(f)

(* C28: for a well-formed, untruncated file every region of the metadata  *)
(* is read exactly where the layout puts it, every property value taking   *)
(* 4 bytes whether it is stored or not, and the cursor before the footer   *)
(* seek is 28 + sum of (4 + label length) + 4 * n_pollutants + sum over    *)
(* the three kinds of (4 + 4 * P + 4 * count * P) + 16 + 20 + 4.  (A code  *)
(* lookup that raises IndexError ends the decode inside a region.)         *)
C28_CursorBeforeFooter ==
    (WellFormed(file) /\ Len(log) >= 8 /\ exc # "IndexError") =>
        /\ log[8].to = 28
        /\ \A i \in 9 .. Min(Len(log), 19) :
              /\ log[i].from = (IF i = 9 THEN 28 ELSE LayoutEnd(file, i - 1))
              /\ log[i].to = LayoutEnd(file, i)
        /\ pc.at = "footer" => pos = CursorBeforeFooter(file)
        /\ Len(log) >= 20 => log[20].from = CursorBeforeFooter(file)

(* a returned decode of a file with two nodes of three properties and a   *)
(* subcatchment whose block lists the type code, which is read and not     *)
(* stored                                                                  *)
C28_Witness ==
    /\ Decoded
    /\ WellFormed(file)
    /\ header.n_subcatchments >= 1
    /\ NProps("subcatchment") >= 1
    /\ "type" \in {NameAt("subcatchment", j) : j \in 1 .. NProps("subcatchment")}
    /\ log[19].to = CursorBeforeFooter(file)
    /\ \E l \in DOMAIN properties["subcatchment"] :
          "type" \notin DOMAIN properties["subcatchment"][l]

-----------------------------------------------------------------------------
(* Truncation.  A read of the pass (calls 2 .. 19) that starts at          *)
(* end-of-file comes after a read that reached it; the report interval,    *)
(* the last read of the pass, always asks for 4 bytes, so the pass hit     *)
(* end-of-file exactly when that read came back short.                     *)
Eof == Len(file)
StartsAtEof(i) == i <= Len(log) /\ log[i].from = Eof
PassHitEof == Len(log) >= 19 /\ log[19].to - log[19].from < 4

(* from the read that reaches end-of-file on, the cursor stays there *)
EofSticky ==
    \A i \in 3 .. Min(Len(log), 19) :
        log[i - 1].to = Eof => (log[i].from = Eof /\ log[i].to = Eof)

(* what is read at end-of-file decodes to 0, 0.0, the empty string, the   *)
(* name of code 0 and the fallback date                                    *)
EofValues ==
    /\ header # EmptyDict =>
          \A i \in 3 .. 8 : StartsAtEof(i) => header[CallOrder[i]] = 0
    /\ \A k \in 1 .. 4 :
          (StartsAtEof(8 + k) /\ Kinds[k] \in DOMAIN labels) =>
              \A j \in 1 .. Len(labels[Kinds[k]]) : labels[Kinds[k]][j] = <<>>
    /\ (StartsAtEof(13) /\ pc.at \notin {"units", "raised"}) =>
          \A l \in DOMAIN pollutant_units : pollutant_units[l] = CONCENTRATION_UNITS[1]
    /\ \A k \in 1 .. 3 :
          (StartsAtEof(13 + k) /\ ObjectKinds[k] \in DOMAIN properties) =>
              \A l \in DOMAIN properties[ObjectKinds[k]] :
                  properties[ObjectKinds[k]][l] = EmptyDict
    /\ (StartsAtEof(17) /\ variables # EmptyDict) =>
          \A v \in DOMAIN variables : variables[v] = 0
    /\ StartsAtEof(18) => start_date = FALLBACK_DATE
    /\ StartsAtEof(19) => report_interval_seconds = 0

(* the decode of a truncated file returns a complete structure, its       *)
(* footer being the last 24 bytes of the file                              *)
TruncatedCompletes ==
    PassHitEof =>
        /\ pc.at # "raised"
        /\ exc = "none"
        /\ pc.at \in {"index", "done"} =>
              footer = [i \in 1 .. 6 |-> Int32At(file, Eof - 24 + 4 * (i - 1))]
        /\ Decoded =>
              /\ DOMAIN labels = {Kinds[k] : k \in 1 .. 4}
              /\ DOMAIN properties = {ObjectKinds[k] : k \in 1 .. 3}
              /\ Len(time_index) = Max(n_periods, 0)

(* C29: once a read of the header/metadata pass has reached end-of-file   *)
(* the cursor stays there, every later integer, float and label of the     *)
(* pass decodes to 0, 0.0 or the empty string and a later start date to    *)
(* the fallback date, and the decode still returns a complete structure    *)
(* whose footer was read from the last 24 bytes of the file.               *)
C29_TruncationAbsorbed ==
    /\ EofSticky
    /\ EofValues
    /\ TruncatedCompletes

-----------------------------------------------------------------------------
(* the last object of the kind that carries label l *)
LastCarrier(kind, l) ==
    CHOOSE i \in 1 .. Len(labels[kind]) :
        /\ labels[kind][i] = l
        /\ \A j \in i + 1 .. Len(labels[kind]) : labels[kind][j] # l
Repeats(kind) ==
    \E i, j \in 1 .. Len(labels[kind]) : i < j /\ labels[kind][i] = labels[kind][j]
(* the bytes of a block with a row for every object, and of the units     *)
BlockSize(kind) == 4 + 4 * NProps(kind) + 4 * NProps(kind) * Len(labels[kind])
Consumed(what, size) ==
    Entry(what).from + size <= Len(file) => Entry(what).to = Entry(what).from + size

(* C30: each property table and the pollutant units have exactly one      *)
(* entry per distinct label of the kind, holding the values of the last    *)
(* object in label order that carries the label; a row (a unit code) is    *)
(* read for every object, repeated label or not; so a kind that has        *)
(* labels has at most as many entries as the header count, and fewer       *)
(* when a label repeats.                                                   *)
C30_OneEntryPerLabel ==
    Decoded =>
        /\ \A k \in 1 .. 3 :
              LET kind == ObjectKinds[k]
                  table == properties[kind]
              IN  /\ DOMAIN table = SeqRange(labels[kind])
                  /\ \A l \in DOMAIN table :
                        table[l] = ExpectedRow(kind, LastCarrier(kind, l))
                  /\ Consumed("properties." \o kind, BlockSize(kind))
                  /\ labels[kind] # <<>> =>
                        /\ Len(labels[kind]) = header[CountKey[k]]
                        /\ Cardinality(DOMAIN table) <= header[CountKey[k]]
                  /\ Repeats(kind) => Cardinality(DOMAIN table) < header[CountKey[k]]
        /\ DOMAIN pollutant_units = SeqRange(labels["pollutant"])
        /\ \A l \in DOMAIN pollutant_units :
              pollutant_units[l] = ExpectedUnit(LastCarrier("pollutant", l))
        /\ Consumed("pollutant_units", 4 * Len(labels["pollutant"]))
        /\ labels["pollutant"] # <<>> =>
              Cardinality(DOMAIN pollutant_units) <= header.n_pollutants
        /\ Repeats("pollutant") =>
              Cardinality(DOMAIN pollutant_units) < header.n_pollutants

(* two nodes carrying one label, with different rows, both read: the one  *)
(* entry of the table holds the second row                                 *)
C30_Witness ==
    /\ Decoded
    /\ header.n_nodes = 2
    /\ labels["node"][1] = labels["node"][2]
    /\ NProps("node") >= 1
    /\ ExpectedRow("node", 1) # ExpectedRow("node", 2)
    /\ Cardinality(DOMAIN properties["node"]) = 1
    /\ properties["node"][labels["node"][2]] = ExpectedRow("node", 2)
    /\ Entry("properties.node").to = Entry("properties.node").from + BlockSize("node")

=============================================================================
